---- MODULE Spec2Model ----
(***************************************************************************)
(* PyAutoLens: the frame convolver of the inversion                        *)
(* (autolens/inversion/convolution.py) and the fitting functions           *)
(* (src/analysis/fitting.py).                                              *)
(*                                                                         *)
(* Numbers.  Kernel weights, image values and mapping-matrix entries are   *)
(* integers (a weight w stands for w/10, so the kernel 0.1/0.6/0.1 is      *)
(* 1/6/1); the convolution is linear, so the scale cancels in every        *)
(* equation checked here.  numpy arrays are functions over 0..n-1 and keep *)
(* the source's 0-based indexes.                                           *)
(***************************************************************************)
EXTENDS Integers, Sequences, FiniteSets, TLC

(***************************************************************************)
(* Bounds of the model.                                                    *)
(***************************************************************************)
\* at most MaxUnmasked pixels of a drawn mask are unmasked (False)
MaxUnmasked == 5
\* the largest value of a mapping-matrix entry or of an image pixel
MaxValue == 2
\* the masks of the fits have 1..MaxFitPixels unmasked pixels
MaxFitPixels == 2

\* the PSF kernels are KernelSide x KernelSide (kernel_shape=(3,3))
KernelSide == 3
KernelMaxSize == KernelSide * KernelSide
Half == KernelSide \div 2
\* The masks of the convolver are drawn on an image of the kernel's shape, as
\* in the docstring of convolve_mapping_matrix: the centre pixel can have every
\* tap on the image, every other pixel has taps that fall off it.
ImageSide == KernelSide

(***************************************************************************)
(* Arrays.                                                                 *)
(***************************************************************************)
\* a literal row-of-rows as a 0-based 2D array
Arr2(t) == [i \in 0..(Len(t) - 1) |-> [j \in 0..(Len(t[1]) - 1) |-> t[i + 1][j + 1]]]
\* a literal tuple as a 0-based 1D array
Arr1(t) == [i \in 0..(Len(t) - 1) |-> t[i + 1]]

\* number of entries of a 0-based array
Size(a) == Cardinality(DOMAIN a)

RECURSIVE SumTo(_, _)
\* f[0] + ... + f[n-1]
SumTo(f, n) == IF n = 0 THEN 0 ELSE SumTo(f, n - 1) + f[n - 1]

\* np.zeros(shape)
Zeros(rows, cols) == [i \in 0..(rows - 1) |-> [j \in 0..(cols - 1) |-> 0]]

\* the n x n identity mapping matrix, scaled by a
Identity(n, a) == [i \in 0..(n - 1) |-> [j \in 0..(n - 1) |-> IF i = j THEN a ELSE 0]]

\* matrix times vector
MatVec(m, v) == [i \in DOMAIN m |-> SumTo([j \in DOMAIN v |-> m[i][j] * v[j]], Size(v))]

(***************************************************************************)
(* Masks: a 2D boolean array, True = masked.  The unmasked pixels are      *)
(* numbered 0, 1, ... in row-major order.                                  *)
(***************************************************************************)
Cells(side) == (0..(side - 1)) \X (0..(side - 1))

Unmasked(m) == {c \in DOMAIN m : ~m[c]}

\* row-major order of the cells
Before(a, b) == a[1] < b[1] \/ (a[1] = b[1] /\ a[2] < b[2])

\* the 1D index of an unmasked cell
mask_index(m, c) == Cardinality({q \in Unmasked(m) : Before(q, c)})

\* the cell of the pixel with 1D index i
cell_of(m, i) == CHOOSE c \in Unmasked(m) : mask_index(m, c) = i

pixels_in_mask(m) == Cardinality(Unmasked(m))

(***************************************************************************)
(* The frames of the convolver (Convolver.__init__): for every unmasked    *)
(* pixel the kernel taps that land on an unmasked pixel, as the target's   *)
(* 1D index and the tap's weight, in kernel order; a tap landing on a      *)
(* masked pixel or outside the image is left out.  The arrays have         *)
(* KernelMaxSize slots, the unused ones hold -1.                           *)
(***************************************************************************)
\* the taps of the kernel in row-major order, as (row, column) of the kernel
TapSeq == [k \in 1..KernelMaxSize |-> <<(k - 1) \div KernelSide, (k - 1) % KernelSide>>]

\* the cell a tap lands on when the kernel is centred on cell c
TapTarget(c, t) == <<c[1] - Half + t[1], c[2] - Half + t[2]>>

\* a tap is kept when it lands on an unmasked pixel of the image
TapLands(m, c, t) == TapTarget(c, t) \in DOMAIN m /\ ~m[TapTarget(c, t)]

ValidTaps(m, c) == SelectSeq(TapSeq, LAMBDA t : TapLands(m, c, t))

frame_indexes_at(m, c) ==
    LET valid == ValidTaps(m, c)
    IN [k \in 0..(KernelMaxSize - 1) |->
           IF k < Len(valid) THEN mask_index(m, TapTarget(c, valid[k + 1])) ELSE -1]

frame_psfs_at(m, kernel, c) ==
    LET valid == ValidTaps(m, c)
    IN [k \in 0..(KernelMaxSize - 1) |->
           IF k < Len(valid) THEN kernel[valid[k + 1][1]][valid[k + 1][2]] ELSE -1]

frame_length_at(m, c) == Len(ValidTaps(m, c))

make_image_frame_indexes(m) ==
    [i \in 0..(pixels_in_mask(m) - 1) |-> frame_indexes_at(m, cell_of(m, i))]

make_image_frame_psfs(m, kernel) ==
    [i \in 0..(pixels_in_mask(m) - 1) |-> frame_psfs_at(m, kernel, cell_of(m, i))]

make_image_frame_lengths(m) ==
    [i \in 0..(pixels_in_mask(m) - 1) |-> frame_length_at(m, cell_of(m, i))]

(***************************************************************************)
(* ConvolverMappingMatrix.convolve_matrix_jit: the three nested loops.     *)
(***************************************************************************)
\* a numpy index: a negative index counts from the end
Wrap(index, n) == IF index < 0 THEN index + n ELSE index

\* mutant of contributes: an entry of 1 is skipped too
contributes_above_one(value) == value > 1

\* line 107: only a positive entry of the mapping matrix is blurred
contributes(value) == value > 0

\* mutant of frame_range: every slot of the frame arrays is read, the unused ones too
frame_range_all_slots(frame_length) == KernelMaxSize

\* line 113: the taps of a frame that are read
frame_range(frame_length) == frame_length

\* mutant of accumulate: the product is stored, not added
accumulate_overwrite(blurred, vector_index, pixel_index, value, kernel) ==
    [blurred EXCEPT ![IF vector_index < 0 THEN vector_index + Cardinality(DOMAIN blurred)
                      ELSE vector_index][pixel_index] = value * kernel]

\* mutant of accumulate: the weight of the tap is left out
accumulate_unweighted(blurred, vector_index, pixel_index, value, kernel) ==
    [blurred EXCEPT ![IF vector_index < 0 THEN vector_index + Cardinality(DOMAIN blurred)
                      ELSE vector_index][pixel_index] = @ + value]

\* line 116: blurred_mapping_matrix[vector_index, pixel_index] += value * kernel
accumulate(blurred, vector_index, pixel_index, value, kernel) ==
    [blurred EXCEPT ![Wrap(vector_index, Size(blurred))][pixel_index] = @ + value * kernel]

RECURSIVE kernel_loop(_, _, _, _, _, _, _)
\* lines 113-116, from kernel_index on (the test on blurred is never true: it
\* makes TLC evaluate the matrix accumulated so far at every step)
kernel_loop(blurred, value, frame_indexes, frame_kernels, frame_length, pixel_index, kernel_index) ==
    IF kernel_index >= frame_range(frame_length) \/ Size(blurred) = 0
    THEN blurred
    ELSE kernel_loop(accumulate(blurred, frame_indexes[kernel_index], pixel_index, value,
                                frame_kernels[kernel_index]),
                     value, frame_indexes, frame_kernels, frame_length, pixel_index,
                     kernel_index + 1)

RECURSIVE image_loop(_, _, _, _, _, _, _)
\* lines 103-116, from image_index on (the test on blurred: as in kernel_loop)
image_loop(blurred, mm, frame_indexes, frame_kernels, frame_lengths, pixel_index, image_index) ==
    IF image_index >= Size(mm) \/ Size(blurred) = 0
    THEN blurred
    ELSE LET value == mm[image_index][pixel_index]
             next == IF contributes(value)
                     THEN kernel_loop(blurred, value, frame_indexes[image_index],
                                      frame_kernels[image_index], frame_lengths[image_index],
                                      pixel_index, 0)
                     ELSE blurred
         IN image_loop(next, mm, frame_indexes, frame_kernels, frame_lengths, pixel_index,
                       image_index + 1)

RECURSIVE pixel_loop(_, _, _, _, _, _)
\* lines 102-116, from pixel_index on (the test on blurred: as in kernel_loop)
pixel_loop(blurred, mm, frame_indexes, frame_kernels, frame_lengths, pixel_index) ==
    IF pixel_index >= Size(mm[0]) \/ Size(blurred) = 0
    THEN blurred
    ELSE pixel_loop(image_loop(blurred, mm, frame_indexes, frame_kernels, frame_lengths,
                               pixel_index, 0),
                    mm, frame_indexes, frame_kernels, frame_lengths, pixel_index + 1)

convolve_matrix_jit(mm, frame_indexes, frame_kernels, frame_lengths) ==
    pixel_loop(Zeros(Size(mm), Size(mm[0])), mm, frame_indexes, frame_kernels, frame_lengths, 0)

(***************************************************************************)
(* The direct blurring of a 1D image vector with the frames: pixel i adds  *)
(* image[i] * weight to the target of every tap of its frame.              *)
(***************************************************************************)
\* what pixel i sends to pixel t
frame_flux(image, frame_indexes, frame_kernels, frame_lengths, i, t) ==
    SumTo([k \in 0..(KernelMaxSize - 1) |->
              IF k < frame_lengths[i] /\ frame_indexes[i][k] = t
              THEN image[i] * frame_kernels[i][k] ELSE 0], KernelMaxSize)

convolve_image(image, frame_indexes, frame_kernels, frame_lengths) ==
    [t \in DOMAIN image |->
        SumTo([i \in DOMAIN image |->
                  frame_flux(image, frame_indexes, frame_kernels, frame_lengths, i, t)],
              Size(image))]

(***************************************************************************)
(* Exact numbers for the fit.  A rational is <<numerator, denominator>> in *)
(* lowest terms with a positive denominator.  A real value is              *)
(*     rat + coef * (k2pi * log(2 pi) + log(arg))                          *)
(* with rat, coef and arg rational and arg > 0: the values the likelihood  *)
(* and the evidence take on rational data.  The part in brackets is 0 when *)
(* k2pi = 0 and arg = 1, and coef is then kept at 1.                       *)
(***************************************************************************)
Abs(x) == IF x < 0 THEN -x ELSE x

RECURSIVE GCD(_, _)
GCD(a, b) == IF b = 0 THEN a ELSE GCD(b, a % b)

LCM(a, b) == (a \div GCD(a, b)) * b

RNorm(n, d) ==
    LET g == GCD(Abs(n), Abs(d))
    IN IF d < 0 THEN <<(-n) \div g, (-d) \div g>> ELSE <<n \div g, d \div g>>

RInt(n) == <<n, 1>>
RZero == RInt(0)
ROne == RInt(1)

RAdd(a, b) ==
    LET g == GCD(a[2], b[2])
    IN RNorm(a[1] * (b[2] \div g) + b[1] * (a[2] \div g), (a[2] \div g) * b[2])

RNeg(a) == <<-a[1], a[2]>>
RSub(a, b) == RAdd(a, RNeg(b))

RMul(a, b) ==
    LET g1 == GCD(Abs(a[1]), b[2])
        g2 == GCD(Abs(b[1]), a[2])
    IN RNorm((a[1] \div g1) * (b[1] \div g2), (a[2] \div g2) * (b[2] \div g1))

\* 1 / a, for a # 0
RInv(a) == IF a[1] < 0 THEN <<-a[2], -a[1]>> ELSE <<a[2], a[1]>>
RDiv(a, b) == RMul(a, RInv(b))

RECURSIVE RSumTo(_, _)
\* f[0] + ... + f[n-1], rationals
RSumTo(f, n) == IF n = 0 THEN RZero ELSE RAdd(RSumTo(f, n - 1), f[n - 1])

NoLog(x) == x.k2pi = 0 /\ x.arg = ROne

\* the real value of a rational
Real(q) == [fp |-> "finite", rat |-> q, coef |-> ROne, k2pi |-> 0, arg |-> ROne]

\* the floating-point values that are not numbers of the real line: numpy
\* yields them (with a RuntimeWarning, not an exception) from a division by
\* zero and from the logarithm of zero
NonFinite(kind) == [fp |-> kind, rat |-> RZero, coef |-> ROne, k2pi |-> 0, arg |-> ROne]
NaN == NonFinite("nan")
PosInf == NonFinite("inf")
NegInf == NonFinite("-inf")
IsFinite(x) == x.fp = "finite"

\* -x of a value that is not finite
Negated(x) == IF x = PosInf THEN NegInf ELSE IF x = NegInf THEN PosInf ELSE x

\* x + y when x or y is not finite: nan wins, inf + -inf is nan
NonFinitePlus(x, y) ==
    IF x = NaN \/ y = NaN THEN NaN
    ELSE IF IsFinite(x) THEN y
    ELSE IF IsFinite(y) \/ x = y THEN x
    ELSE NaN

\* np.log(q), for q >= 0
Log(q) ==
    IF q = RZero THEN NegInf
    ELSE [fp |-> "finite", rat |-> RZero, coef |-> ROne, k2pi |-> 0, arg |-> q]

\* np.log(2 * np.pi * q), for q >= 0
Log2Pi(q) ==
    IF q = RZero THEN NegInf
    ELSE [fp |-> "finite", rat |-> RZero, coef |-> ROne, k2pi |-> 1, arg |-> q]

\* x + y, for x and y with coef 1
Plus(x, y) ==
    IF IsFinite(x) /\ IsFinite(y)
    THEN [fp |-> "finite", rat |-> RAdd(x.rat, y.rat), coef |-> ROne,
          k2pi |-> x.k2pi + y.k2pi, arg |-> RMul(x.arg, y.arg)]
    ELSE NonFinitePlus(x, y)

\* x - y, for x and y with coef 1
Minus(x, y) ==
    IF IsFinite(x) /\ IsFinite(y)
    THEN [fp |-> "finite", rat |-> RSub(x.rat, y.rat), coef |-> ROne,
          k2pi |-> x.k2pi - y.k2pi, arg |-> RDiv(x.arg, y.arg)]
    ELSE NonFinitePlus(x, Negated(y))

\* q * x, for a rational q # 0
Times(q, x) ==
    IF IsFinite(x)
    THEN [fp |-> "finite", rat |-> RMul(q, x.rat),
          coef |-> IF NoLog(x) THEN ROne ELSE RMul(q, x.coef),
          k2pi |-> x.k2pi, arg |-> x.arg]
    ELSE IF q[1] < 0 THEN Negated(x) ELSE x

\* (r / n) ** 2.0 for a rational r and a noise value n: a division by zero is
\* inf (nan for 0 / 0), and its square is the same
SquaredRatio(r, n) ==
    IF n # 0 THEN Real(RMul(RDiv(r, RInt(n)), RDiv(r, RInt(n))))
    ELSE IF r = RZero THEN NaN ELSE PosInf

RECURSIVE PlusTo(_, _)
\* np.sum of an array of real values
PlusTo(f, n) == IF n = 0 THEN Real(RZero) ELSE Plus(PlusTo(f, n - 1), f[n - 1])

\* -0.5
MinusHalf == RNorm(-1, 2)

(***************************************************************************)
(* Linear algebra on integer matrices.  A rational matrix is kept as an    *)
(* integer matrix num over one positive denominator den.                   *)
(***************************************************************************)
\* one step of the fraction-free elimination on pivot k: afterwards column k
\* is zero off the diagonal, and every entry is still an integer
ElimStep(a, k, prev) ==
    [i \in DOMAIN a |->
        [j \in DOMAIN a[i] |->
            IF i = k THEN a[k][j]
            ELSE (a[k][k] * a[i][j] - a[i][k] * a[k][j]) \div prev]]

RECURSIVE Eliminate(_, _, _)
\* The elimination of the n x (n + c) matrix a from pivot k on.  The pivot of
\* step k is the leading principal minor of order k + 1 of the square part: the
\* factorization of a symmetric matrix fails at the first one that is not
\* positive.  On success the square part is det * identity and the other
\* columns hold det * (the solution).
Eliminate(a, k, prev) ==
    IF k = Size(a) THEN [ok |-> TRUE, m |-> a, det |-> prev]
    ELSE IF a[k][k] <= 0 THEN [ok |-> FALSE, m |-> a, det |-> a[k][k]]
    ELSE Eliminate(ElimStep(a, k, prev), k + 1, a[k][k])

RECURSIVE Power(_, _)
Power(b, e) == IF e = 0 THEN 1 ELSE b * Power(b, e - 1)

(***************************************************************************)
(* The result of a call that may raise.                                    *)
(***************************************************************************)
Returned(v) == [kind |-> "returned", value |-> v, error |-> "none"]
Raised(e) == [kind |-> "raised", value |-> Real(RZero), error |-> e]
NoResult == [kind |-> "none", value |-> Real(RZero), error |-> "none"]

(***************************************************************************)
(* The pixelization fit object (pix_pre_fit.fit_image_via_inversion and    *)
(* the methods of pix_fit).  F = M^T diag(1/noise^2) M on the blurred      *)
(* mapping matrix M, D = M^T diag(1/noise^2) d, and the reconstruction s   *)
(* solves (F + R) s = D.  With W the least common multiple of the noise^2, *)
(* W F, W D and W (F + R) are integer.                                     *)
(***************************************************************************)
RECURSIVE LcmOfSquaresTo(_, _)
LcmOfSquaresTo(noise, n) ==
    IF n = 0 THEN 1 ELSE LCM(LcmOfSquaresTo(noise, n - 1), noise[n - 1] * noise[n - 1])

NoiseWeight(noise, i) == LcmOfSquaresTo(noise, Size(noise)) \div (noise[i] * noise[i])

\* W F for the mapping matrix m
WeightedCovariance(m, noise) ==
    [j \in DOMAIN m[0] |-> [k \in DOMAIN m[0] |->
        SumTo([i \in DOMAIN m |-> m[i][j] * m[i][k] * NoiseWeight(noise, i)], Size(m))]]

\* W D for the mapping matrix m
WeightedData(m, data, noise) ==
    [j \in DOMAIN m[0] |->
        SumTo([i \in DOMAIN m |-> m[i][j] * data[i] * NoiseWeight(noise, i)], Size(m))]

UnsetFit == [set |-> FALSE]

\* pix_pre_fit.fit_image_via_inversion(image, noise, kernel_convolver): the
\* mapping matrix is blurred with the convolver, the normal equations are built
\* and solved; InversionError when F + R is not positive-definite
fit_image_via_inversion(pre_fit, data, noise, blurred) ==
    LET W == LcmOfSquaresTo(noise, Size(noise))
        count == Size(blurred[0])
        F == WeightedCovariance(blurred, noise)
        D == WeightedData(blurred, data, noise)
        A == [j \in DOMAIN F |-> [k \in DOMAIN F |-> F[j][k] + W * pre_fit.regularization[j][k]]]
        aug == [j \in DOMAIN F |-> [k \in 0..count |-> IF k = count THEN D[j] ELSE A[j][k]]]
        e == Eliminate(aug, 0, 1)
    IN IF e.ok
       THEN [set |-> TRUE,
             blurred_mapping_matrix |-> blurred,
             covariance |-> [num |-> F, den |-> W],
             regularization |-> [num |-> pre_fit.regularization, den |-> 1],
             covariance_regularization |-> [num |-> A, den |-> W],
             reconstruction |-> [j \in DOMAIN F |-> RNorm(e.m[j][count], e.det)]]
       ELSE UnsetFit

\* pix_fit.model_image_from_reconstruction(): M . s
model_image_from_reconstruction(fitted) ==
    [i \in DOMAIN fitted.blurred_mapping_matrix |->
        RSumTo([j \in DOMAIN fitted.reconstruction |->
                   RMul(RInt(fitted.blurred_mapping_matrix[i][j]), fitted.reconstruction[j])],
               Size(fitted.reconstruction))]

\* pix_fit.regularization_term_from_reconstruction(): s^T R s
regularization_term_from_reconstruction(fitted) ==
    LET s == fitted.reconstruction
        R == fitted.regularization.num
    IN Real(RSumTo([j \in DOMAIN s |->
                RMul(s[j], RSumTo([k \in DOMAIN s |-> RMul(RInt(R[j][k]), s[k])], Size(s)))],
            Size(s)))

\* pix_fit.log_determinant_of_matrix_cholesky(matrix): 2 * sum(log(diag(L))) for
\* the Cholesky factor L, that is log(det(matrix)); InversionError when the
\* matrix is not positive-definite
log_determinant_of_matrix_cholesky(matrix) ==
    LET e == Eliminate(matrix.num, 0, 1)
    IN IF e.ok THEN Returned(Log(RNorm(e.det, Power(matrix.den, Size(matrix.num)))))
       ELSE Raised("InversionError")

(***************************************************************************)
(* src/analysis/fitting.py                                                 *)
(***************************************************************************)
\* mutant of compute_chi_sq_term: the residual is not divided by the noise
compute_chi_sq_term_unweighted(data, noise, model_image) ==
    Real(RSumTo([i \in DOMAIN data |->
                    LET r == RSub(RInt(data[i]), model_image[i]) IN RMul(r, r)],
                Cardinality(DOMAIN data)))

\* np.sum((np.add(image.view(float), - model_image) / noise) ** 2.0)
compute_chi_sq_term(data, noise, model_image) ==
    PlusTo([i \in DOMAIN data |->
               SquaredRatio(RSub(RInt(data[i]), model_image[i]), noise[i])],
           Size(data))

\* np.sum(np.log(2 * np.pi * noise ** 2.0))
compute_noise_term(noise) ==
    PlusTo([i \in DOMAIN noise |-> Log2Pi(RInt(noise[i] * noise[i]))], Size(noise))

\* mutant of compute_likelihood: the noise term is left out
compute_likelihood_without_noise_term(data, noise, model_image) ==
    Times(MinusHalf, compute_chi_sq_term(data, noise, model_image))

\* -0.5 * (compute_chi_sq_term(image, noise, model_image) + compute_noise_term(noise))
compute_likelihood(data, noise, model_image) ==
    Times(MinusHalf, Plus(compute_chi_sq_term(data, noise, model_image),
                          compute_noise_term(noise)))

\* mutant of evidence_terms: the determinant of the regularization is added
evidence_terms_wrong_sign(chi_sq, regularization_term, log_det_cov_reg, log_det_reg, noise_term) ==
    Plus(Plus(Plus(Plus(chi_sq, regularization_term), log_det_cov_reg), log_det_reg),
         noise_term)

\* mutant of evidence_terms: the noise normalization is left out
evidence_terms_without_noise(chi_sq, regularization_term, log_det_cov_reg, log_det_reg, noise_term) ==
    Minus(Plus(Plus(chi_sq, regularization_term), log_det_cov_reg), log_det_reg)

\* lines 173-177: the sum inside the brackets
evidence_terms(chi_sq, regularization_term, log_det_cov_reg, log_det_reg, noise_term) ==
    Plus(Minus(Plus(Plus(chi_sq, regularization_term), log_det_cov_reg), log_det_reg),
         noise_term)

\* mutant of compute_pixelization_evidence: the determinant of the regularization
\* matrix is not taken
compute_pixelization_evidence_without_reg_det(data, noise, model_image, fitted) ==
    LET cov_reg == log_determinant_of_matrix_cholesky(fitted.covariance_regularization)
    IN IF cov_reg.kind = "raised" THEN cov_reg
       ELSE Returned(Times(MinusHalf,
                Plus(Plus(Plus(compute_chi_sq_term(data, noise, model_image),
                               regularization_term_from_reconstruction(fitted)),
                          cov_reg.value),
                     compute_noise_term(noise))))

\* mutant of compute_pixelization_evidence: F + R is rebuilt from the blurred
\* mapping matrix, without the noise weights, instead of taken from pix_fit
compute_pixelization_evidence_rebuilt(data, noise, model_image, fitted) ==
    LET F == WeightedCovariance(fitted.blurred_mapping_matrix, [i \in DOMAIN noise |-> 1])
        rebuilt == [num |-> [j \in DOMAIN F |-> [k \in DOMAIN F |->
                                F[j][k] + fitted.regularization.num[j][k]]],
                    den |-> 1]
        cov_reg == log_determinant_of_matrix_cholesky(rebuilt)
        reg == log_determinant_of_matrix_cholesky(fitted.regularization)
    IN IF cov_reg.kind = "raised" THEN cov_reg
       ELSE IF reg.kind = "raised" THEN reg
       ELSE Returned(Times(MinusHalf,
                evidence_terms(compute_chi_sq_term(data, noise, model_image),
                               regularization_term_from_reconstruction(fitted),
                               cov_reg.value, reg.value, compute_noise_term(noise))))

\* compute_pixelization_evidence(image, noise, model_image, pix_fit): the terms
\* are evaluated left to right, and the first one that raises ends the call
compute_pixelization_evidence(data, noise, model_image, fitted) ==
    LET cov_reg == log_determinant_of_matrix_cholesky(fitted.covariance_regularization)
        reg == log_determinant_of_matrix_cholesky(fitted.regularization)
    IN IF cov_reg.kind = "raised" THEN cov_reg
       ELSE IF reg.kind = "raised" THEN reg
       ELSE Returned(Times(MinusHalf,
                evidence_terms(compute_chi_sq_term(data, noise, model_image),
                               regularization_term_from_reconstruction(fitted),
                               cov_reg.value, reg.value, compute_noise_term(noise))))

(***************************************************************************)
(* State.                                                                  *)
(***************************************************************************)
VARIABLES
    mask,                 \* the mask the convolver was built for
    psf,                  \* the PSF kernel the convolver was built for
    image_frame_indexes,  \* per unmasked pixel: the targets of its taps
    image_frame_psfs,     \* per unmasked pixel: the weights of its taps
    image_frame_lengths,  \* per unmasked pixel: the number of its taps
    call,                 \* the last call of the convolver: operation, argument, result
    image,                \* the image of the fit: its data and its background_noise
    tracer,               \* what the tracer of the fit call gives
    fit,                  \* the fit function that was called
    pc,                   \* the statement of the fit function that runs next
    pix_pre_fit,          \* fit_data_with_pixelization: its local pix_pre_fit
    pix_fit,              \* fit_data_with_pixelization: its local pix_fit
    model_image,          \* the (blurred) model image of the fit
    result,               \* what the fit function returned or raised
    objects               \* the phase and analysis objects: their attributes by object

convolver_vars == <<mask, psf, image_frame_indexes, image_frame_psfs, image_frame_lengths>>
fit_vars == <<image, tracer, fit, pc, pix_pre_fit, pix_fit, model_image, result>>
vars == <<mask, psf, image_frame_indexes, image_frame_psfs, image_frame_lengths, call,
          image, tracer, fit, pc, pix_pre_fit, pix_fit, model_image, result, objects>>

\* no phase or analysis object has been made
NoObjects == [made |-> FALSE]

\* no call of the convolver yet
NoCall == [op |-> "none", arg |-> <<>>, result |-> <<>>]

(***************************************************************************)
(* Inputs.                                                                 *)
(***************************************************************************)
\* the masks of the image with 1..MaxUnmasked unmasked pixels
Masks ==
    {m \in [Cells(ImageSide) -> BOOLEAN] :
        pixels_in_mask(m) >= 1 /\ pixels_in_mask(m) <= MaxUnmasked}

\* the kernel that does not blur (the integration test's PSF)
NoBlurKernel == Arr2(<< <<0, 0, 0>>, <<0, 1, 0>>, <<0, 0, 0>> >>)
\* the kernel of the docstring of convolve_mapping_matrix, in tenths
DocKernel == Arr2(<< <<0, 1, 0>>, <<1, 6, 1>>, <<0, 1, 0>> >>)
\* a kernel with no symmetry
AsymKernel == Arr2(<< <<0, 1, 2>>, <<3, 4, 0>>, <<1, 0, 2>> >>)

Kernels == {NoBlurKernel, DocKernel, AsymKernel}

\* the mapping matrix of the docstring: image pixels 2j and 2j+1 map to source pixel j
PairedMatrix(n, a) ==
    [i \in 0..(n - 1) |-> [j \in 0..((n + 1) \div 2 - 1) |-> IF i \div 2 = j THEN a ELSE 0]]

\* a mapping matrix with several entries per row and column, some of them 0
DenseMatrix(n) ==
    [i \in 0..(n - 1) |-> [j \in 0..(n - 1) |-> (i + 2 * j) % (MaxValue + 1)]]

MappingMatrices(n) ==
    {Identity(n, a) : a \in 1..MaxValue} \cup {PairedMatrix(n, a) : a \in 1..MaxValue}
        \cup {DenseMatrix(n)}

\* non-negative image vectors
ImageVectors(n) ==
    {[i \in 0..(n - 1) |-> a] : a \in 1..MaxValue}
        \cup {[i \in 0..(n - 1) |-> IF i = k THEN MaxValue ELSE 0] : k \in {0, n - 1}}
        \cup {[i \in 0..(n - 1) |-> (i + 1) % (MaxValue + 1)]}

(***************************************************************************)
(* The convolver: construction and its two operations.                     *)
(***************************************************************************)
\* ConvolverMappingMatrix.__init__(mask, psf)
ConvolverInit ==
    /\ mask \in Masks
    /\ psf \in Kernels
    /\ image_frame_indexes = make_image_frame_indexes(mask)
    /\ image_frame_psfs = make_image_frame_psfs(mask, psf)
    /\ image_frame_lengths = make_image_frame_lengths(mask)

\* ConvolverMappingMatrix.convolve_mapping_matrix(mapping_matrix)
convolve_mapping_matrix(mapping_matrix) ==
    convolve_matrix_jit(mapping_matrix, image_frame_indexes, image_frame_psfs,
                        image_frame_lengths)

\* mutant of blurred_object: line 100 binds the name to the caller's array
blurred_object_aliased(mapping_matrix_object) == mapping_matrix_object

\* line 100: np.zeros binds blurred_mapping_matrix to a new array object,
\* whatever object mapping_matrix is
blurred_object(mapping_matrix_object) == "blurred_mapping_matrix"

\* the array objects the call can reach, as they are when it returns: line
\* 116 is the only assignment to an array, and it writes to the object that
\* line 100 bound
objects_after_call(mapping_matrix) ==
    LET before == [mapping_matrix |-> mapping_matrix,
                   image_frame_indexes |-> image_frame_indexes,
                   image_frame_psfs |-> image_frame_psfs,
                   image_frame_lengths |-> image_frame_lengths,
                   blurred_mapping_matrix |-> <<>>]
    IN [before EXCEPT ![blurred_object("mapping_matrix")] =
                          convolve_mapping_matrix(mapping_matrix)]

ConvolveMappingMatrix ==
    \E mapping_matrix \in MappingMatrices(pixels_in_mask(mask)) :
        LET after == objects_after_call(mapping_matrix)
        IN /\ call' = [op |-> "convolve_mapping_matrix", arg |-> mapping_matrix,
                       result |-> after[blurred_object("mapping_matrix")],
                       result_object |-> blurred_object("mapping_matrix"),
                       arg_after |-> after.mapping_matrix]
           /\ image_frame_indexes' = after.image_frame_indexes
           /\ image_frame_psfs' = after.image_frame_psfs
           /\ image_frame_lengths' = after.image_frame_lengths
           /\ UNCHANGED <<objects, mask, psf, fit_vars>>

ConvolveImage ==
    \E image_vector \in ImageVectors(pixels_in_mask(mask)) :
        /\ call' = [op |-> "convolve_image", arg |-> image_vector,
                    result |-> convolve_image(image_vector, image_frame_indexes,
                                              image_frame_psfs, image_frame_lengths)]
        /\ UNCHANGED <<objects, convolver_vars, fit_vars>>

\* no fit is running
NoFit ==
    /\ image = [data |-> <<>>, background_noise |-> <<>>]
    /\ tracer = UnsetFit
    /\ fit = "none"
    /\ pc = "idle"
    /\ pix_pre_fit = UnsetFit
    /\ pix_fit = UnsetFit
    /\ model_image = <<>>
    /\ result = NoResult

Init ==
    /\ ConvolverInit
    /\ call = NoCall
    /\ objects = NoObjects
    /\ NoFit

Next ==
    \/ ConvolveMappingMatrix
    \/ ConvolveImage

Spec == Init /\ [][Next]_vars

(***************************************************************************)
(* The kernel convolver of the profile fit: convolve_array(image,          *)
(* blurring_image) blurs the image pixels with their frames and adds what  *)
(* the pixels of the blurring region (masked pixels within the kernel's    *)
(* reach of an unmasked pixel) send into the unmasked pixels.              *)
(***************************************************************************)
Near(a, b) == a[1] - b[1] \in (-Half)..Half /\ a[2] - b[2] \in (-Half)..Half

BlurringCells(m) == {c \in DOMAIN m : m[c] /\ \E u \in Unmasked(m) : Near(c, u)}

blurring_cell_of(m, b) ==
    CHOOSE c \in BlurringCells(m) : Cardinality({q \in BlurringCells(m) : Before(q, c)}) = b

blurring_pixels(m) == Cardinality(BlurringCells(m))

convolve_array(image_array, blurring_array) ==
    LET cells == [b \in DOMAIN blurring_array |-> blurring_cell_of(mask, b)]
        blurring_frame_indexes == [b \in DOMAIN blurring_array |-> frame_indexes_at(mask, cells[b])]
        blurring_frame_psfs == [b \in DOMAIN blurring_array |-> frame_psfs_at(mask, psf, cells[b])]
        blurring_frame_lengths == [b \in DOMAIN blurring_array |-> frame_length_at(mask, cells[b])]
        blurred == convolve_image(image_array, image_frame_indexes, image_frame_psfs,
                                  image_frame_lengths)
    IN [t \in DOMAIN image_array |->
           blurred[t]
               + SumTo([b \in DOMAIN blurring_array |->
                           frame_flux(blurring_array, blurring_frame_indexes,
                                      blurring_frame_psfs, blurring_frame_lengths, b, t)],
                       Size(blurring_array))]

(***************************************************************************)
(* The inputs of the fits.                                                 *)
(***************************************************************************)
\* the mask whose unmasked pixels are the first k cells of the image
FitMask(k) == [c \in Cells(ImageSide) |-> c[1] * ImageSide + c[2] >= k]

\* a kernel that blurs, with small weights
FitBlurKernel == Arr2(<< <<0, 1, 0>>, <<1, 2, 1>>, <<0, 1, 0>> >>)

\* the integration test: a 5x5 image whose interior 3x3 pixels are unmasked
ScenarioSide == 5
ScenarioMask ==
    [c \in Cells(ScenarioSide) |->
        ~(c[1] \in 1..(ScenarioSide - 2) /\ c[2] \in 1..(ScenarioSide - 2))]
ScenarioImage ==
    [data |-> [i \in 0..(pixels_in_mask(ScenarioMask) - 1) |-> 1],
     background_noise |-> [i \in 0..(pixels_in_mask(ScenarioMask) - 1) |-> 1]]
\* reg_matrix of the integration test
ScenarioRegularization ==
    Arr2(<< << 2, -1,  0, -1,  0,  0,  0,  0,  0>>,
            <<-1,  3, -1,  0, -1,  0,  0,  0,  0>>,
            << 0, -1,  2,  0,  0, -1,  0,  0,  0>>,
            <<-1,  0,  0,  3, -1,  0, -1,  0,  0>>,
            << 0, -1,  0, -1,  4, -1,  0, -1,  0>>,
            << 0,  0, -1,  0, -1,  3,  0,  0, -1>>,
            << 0,  0,  0, -1,  0,  0,  2, -1,  0>>,
            << 0,  0,  0,  0, -1,  0, -1,  3, -1>>,
            << 0,  0,  0,  0,  0, -1,  0, -1,  2>> >>)

FitConvolvers ==
    {[mask |-> FitMask(k), psf |-> kernel] :
        k \in 1..MaxFitPixels, kernel \in {NoBlurKernel, FitBlurKernel}}
        \cup {[mask |-> ScenarioMask, psf |-> NoBlurKernel]}

\* noise maps: uniform 1, uniform 2, and 1 and 2 in turn
NoiseMaps(n) ==
    {[i \in 0..(n - 1) |-> a] : a \in 1..2} \cup {[i \in 0..(n - 1) |-> 1 + (i % 2)]}

FitImages(m) ==
    IF m = ScenarioMask THEN {ScenarioImage}
    ELSE {[data |-> d, background_noise |-> noise] :
             d \in ImageVectors(pixels_in_mask(m)) \cup {[i \in 0..(pixels_in_mask(m) - 1) |-> 0]},
             noise \in NoiseMaps(pixels_in_mask(m))}

\* every image pixel maps to source pixel 0, source pixel 1 receives nothing
FirstOnlyMatrix(n) == [i \in 0..(n - 1) |-> [j \in 0..1 |-> IF j = 0 THEN 1 ELSE 0]]

FitMappingMatrices(n) == {Identity(n, 1), PairedMatrix(n, 1), FirstOnlyMatrix(n)}

\* the regularization matrix of a chain of m source pixels with coefficient c
\* (diagonal: c * number of neighbours, -c for a pair of neighbours), plus e on
\* the diagonal: positive-definite for e > 0, singular for e = 0 < c
ChainRegularization(m, c, e) ==
    [i \in 0..(m - 1) |-> [j \in 0..(m - 1) |->
        IF i = j THEN c * Cardinality({k \in 0..(m - 1) : k = i - 1 \/ k = i + 1}) + e
        ELSE IF j = i - 1 \/ j = i + 1 THEN -c ELSE 0]]

Regularizations(m) == {ChainRegularization(m, c, e) : c \in 0..MaxValue, e \in {-1, 0, 1}}

PixelizationTracers ==
    IF mask = ScenarioMask
    THEN {[mapping_matrix |-> Identity(pixels_in_mask(mask), 1),
           regularization |-> ScenarioRegularization]}
    ELSE UNION {{[mapping_matrix |-> mm, regularization |-> R] :
                    R \in Regularizations(Size(mm[0]))} :
                mm \in FitMappingMatrices(pixels_in_mask(mask))}

ProfileTracers ==
    {[image_light_profile |-> lp, blurring_image_light_profile |-> bl] :
        lp \in ImageVectors(pixels_in_mask(mask)),
        bl \in {[b \in 0..(blurring_pixels(mask) - 1) |-> a] : a \in 0..1}}

(***************************************************************************)
(* fit_data_with_pixelization(image, kernel_convolver, tracer, mapping),   *)
(* statement by statement.                                                 *)
(***************************************************************************)
CallFitDataWithPixelization ==
    /\ pc = "idle"
    /\ \E tr \in PixelizationTracers : tracer' = tr
    /\ fit' = "fit_data_with_pixelization"
    /\ pc' = "generate_pixelization_matrices"
    /\ UNCHANGED <<objects, convolver_vars, call, image, pix_pre_fit, pix_fit, model_image, result>>

\* line 137: pix_pre_fit = tracer.generate_pixelization_matrices_of_source_galaxy(mapping)
GeneratePixelizationMatrices ==
    /\ pc = "generate_pixelization_matrices"
    /\ pix_pre_fit' = [set |-> TRUE, mapping_matrix |-> tracer.mapping_matrix,
                       regularization |-> tracer.regularization]
    /\ pc' = "fit_image_via_inversion"
    /\ UNCHANGED <<objects, convolver_vars, call, image, tracer, fit, pix_fit, model_image, result>>

\* line 138: pix_fit = pix_pre_fit.fit_image_via_inversion(image, image.background_noise,
\*                                                       kernel_convolver)
FitImageViaInversion ==
    /\ pc = "fit_image_via_inversion"
    /\ LET fitted == fit_image_via_inversion(pix_pre_fit, image.data, image.background_noise,
                         convolve_mapping_matrix(pix_pre_fit.mapping_matrix))
       IN IF fitted.set
          THEN /\ pix_fit' = fitted
               /\ pc' = "model_image_from_reconstruction"
               /\ UNCHANGED result
          ELSE /\ result' = Raised("InversionError")
               /\ pc' = "done"
               /\ UNCHANGED pix_fit
    /\ UNCHANGED <<objects, convolver_vars, call, image, tracer, fit, pix_pre_fit, model_image>>

\* line 140: model_image = pix_fit.model_image_from_reconstruction()
ModelImageFromReconstruction ==
    /\ pc = "model_image_from_reconstruction"
    /\ model_image' = model_image_from_reconstruction(pix_fit)
    /\ pc' = "compute_pixelization_evidence"
    /\ UNCHANGED <<objects, convolver_vars, call, image, tracer, fit, pix_pre_fit, pix_fit, result>>

\* line 142: return compute_pixelization_evidence(image, image.background_noise,
\*                                                model_image, pix_fit)
ComputePixelizationEvidence ==
    /\ pc = "compute_pixelization_evidence"
    /\ result' = compute_pixelization_evidence(image.data, image.background_noise,
                                               model_image, pix_fit)
    /\ pc' = "done"
    /\ UNCHANGED <<objects, convolver_vars, call, image, tracer, fit, pix_pre_fit, pix_fit, model_image>>

(***************************************************************************)
(* fit_data_with_profiles(image, kernel_convolver, tracer, mapping).       *)
(***************************************************************************)
\* mutant of blur_image_including_blurring_region: the blurring region is left out
blur_image_without_blurring_region(image_array, blurring_array) ==
    convolve_array(image_array, [b \in DOMAIN blurring_array |-> 0])

\* line 119: kernel_convolver.convolve_array(image, blurring_image)
blur_image_including_blurring_region(image_array, blurring_array) ==
    convolve_array(image_array, blurring_array)

\* lines 102-104
generate_blurred_light_profile_image(tr) ==
    blur_image_including_blurring_region(tr.image_light_profile,
                                         tr.blurring_image_light_profile)

CallFitDataWithProfiles ==
    /\ pc = "idle"
    /\ \E tr \in ProfileTracers : tracer' = tr
    /\ fit' = "fit_data_with_profiles"
    /\ pc' = "generate_blurred_light_profile_image"
    /\ UNCHANGED <<objects, convolver_vars, call, image, pix_pre_fit, pix_fit, model_image, result>>

\* line 86: blurred_model_image = generate_blurred_light_profile_image(tracer,
\*                                                        kernel_convolver, mapping)
GenerateBlurredLightProfileImage ==
    /\ pc = "generate_blurred_light_profile_image"
    /\ model_image' = LET blurred == generate_blurred_light_profile_image(tracer)
                      IN [i \in DOMAIN blurred |-> RInt(blurred[i])]
    /\ pc' = "compute_likelihood"
    /\ UNCHANGED <<objects, convolver_vars, call, image, tracer, fit, pix_pre_fit, pix_fit, result>>

\* line 87: return compute_likelihood(image, image.background_noise, blurred_model_image)
ComputeLikelihood ==
    /\ pc = "compute_likelihood"
    /\ result' = Returned(compute_likelihood(image.data, image.background_noise, model_image))
    /\ pc' = "done"
    /\ UNCHANGED <<objects, convolver_vars, call, image, tracer, fit, pix_pre_fit, pix_fit, model_image>>

FitInit ==
    /\ \E c \in FitConvolvers : mask = c.mask /\ psf = c.psf
    /\ image_frame_indexes = make_image_frame_indexes(mask)
    /\ image_frame_psfs = make_image_frame_psfs(mask, psf)
    /\ image_frame_lengths = make_image_frame_lengths(mask)
    /\ call = NoCall
    /\ objects = NoObjects
    /\ image \in FitImages(mask)
    /\ tracer = UnsetFit
    /\ fit = "none"
    /\ pc = "idle"
    /\ pix_pre_fit = UnsetFit
    /\ pix_fit = UnsetFit
    /\ model_image = <<>>
    /\ result = NoResult

FitNext ==
    \/ CallFitDataWithPixelization
    \/ GeneratePixelizationMatrices
    \/ FitImageViaInversion
    \/ ModelImageFromReconstruction
    \/ ComputePixelizationEvidence
    \/ CallFitDataWithProfiles
    \/ GenerateBlurredLightProfileImage
    \/ ComputeLikelihood

SpecFit == FitInit /\ [][FitNext]_vars

(***************************************************************************)
(* Direct calls of compute_likelihood and compute_pixelization_evidence,   *)
(* on every noise map, the ones with a zero entry included.                *)
(***************************************************************************)
\* noise maps with a zero entry: all zero, or zero at one pixel and 1 elsewhere
ZeroNoiseMaps(n) ==
    {[i \in 0..(n - 1) |-> 0]} \cup {[i \in 0..(n - 1) |-> IF i = z THEN 0 ELSE 1] : z \in 0..(n - 1)}

LikelihoodImages(m) ==
    {[data |-> d, background_noise |-> noise] :
        d \in ImageVectors(pixels_in_mask(m)) \cup {[i \in 0..(pixels_in_mask(m) - 1) |-> 0]},
        noise \in NoiseMaps(pixels_in_mask(m)) \cup ZeroNoiseMaps(pixels_in_mask(m))}

\* model images handed to compute_likelihood
ModelImages(n) ==
    {[i \in DOMAIN v |-> RInt(v[i])] : v \in ImageVectors(n) \cup {[i \in 0..(n - 1) |-> 0]}}

\* pix_fit objects handed to compute_pixelization_evidence: the inversions of
\* the data on a one-to-one mapping with unit noise that succeed
DirectPixFits ==
    LET n == Size(image.data)
        fits == {fit_image_via_inversion(
                     [set |-> TRUE, mapping_matrix |-> Identity(n, 1), regularization |-> R],
                     image.data, [i \in 0..(n - 1) |-> 1], Identity(n, 1)) :
                 R \in Regularizations(n)}
    IN {f \in fits : f.set}

\* compute_likelihood(image, noise, model_image)
DirectComputeLikelihood ==
    /\ pc = "idle"
    /\ \E model \in ModelImages(Size(image.data)) :
          /\ model_image' = model
          /\ result' = Returned(compute_likelihood(image.data, image.background_noise, model))
    /\ fit' = "compute_likelihood"
    /\ pc' = "done"
    /\ UNCHANGED <<objects, convolver_vars, call, image, tracer, pix_pre_fit, pix_fit>>

\* compute_pixelization_evidence(image, noise, model_image, pix_fit)
DirectComputePixelizationEvidence ==
    /\ pc = "idle"
    /\ \E fitted \in DirectPixFits :
          /\ pix_fit' = fitted
          /\ model_image' = model_image_from_reconstruction(fitted)
          /\ result' = compute_pixelization_evidence(image.data, image.background_noise,
                                                     model_image_from_reconstruction(fitted),
                                                     fitted)
    /\ fit' = "compute_pixelization_evidence"
    /\ pc' = "done"
    /\ UNCHANGED <<objects, convolver_vars, call, image, tracer, pix_pre_fit>>

LikelihoodInit ==
    /\ \E k \in 1..MaxFitPixels : mask = FitMask(k)
    /\ psf = NoBlurKernel
    /\ image_frame_indexes = make_image_frame_indexes(mask)
    /\ image_frame_psfs = make_image_frame_psfs(mask, psf)
    /\ image_frame_lengths = make_image_frame_lengths(mask)
    /\ call = NoCall
    /\ objects = NoObjects
    /\ image \in LikelihoodImages(mask)
    /\ tracer = UnsetFit
    /\ fit = "none"
    /\ pc = "idle"
    /\ pix_pre_fit = UnsetFit
    /\ pix_fit = UnsetFit
    /\ model_image = <<>>
    /\ result = NoResult

LikelihoodNext ==
    \/ DirectComputeLikelihood
    \/ DirectComputePixelizationEvidence

SpecLikelihood == LikelihoodInit /\ [][LikelihoodNext]_vars

(***************************************************************************)
(* autolens/pipeline/phase/phase.py: setup_phase_mask.  An argument that   *)
(* may be None is a record with the field given.  A mask function is       *)
(* given by the radius of the circular mask it returns; radii are kept as  *)
(* their squares, in squared pixels (pixel_scale 1).                       *)
(***************************************************************************)
None == [given |-> FALSE]
Some(v) == [given |-> TRUE, value |-> v]

\* the squared distance of a cell from the centre of the array
RadiusSquared(side, c) ==
    (c[1] - (side \div 2)) * (c[1] - (side \div 2)) + (c[2] - (side \div 2)) * (c[2] - (side \div 2))

\* msk.Mask.circular(shape, pixel_scale, radius_arcsec, invert): False within
\* the radius, True outside; inverted, the other way round
circular(side, radius_sq, invert) ==
    [c \in Cells(side) |->
        IF invert THEN RadiusSquared(side, c) <= radius_sq
        ELSE ~(RadiusSquared(side, c) <= radius_sq)]

\* mask + inner_mask on boolean arrays: a pixel is masked when either masks it
mask_add(a, b) == [c \in DOMAIN a |-> a[c] \/ b[c]]

\* default_mask_function(image): the circular mask of radius 3.0
default_mask_function(side) == circular(side, 3 * 3, FALSE)

\* the mutant of base_mask: a passed mask comes before the mask function
base_mask_prefers_mask(side, mask_arg, mask_function) ==
    IF mask_arg.given THEN mask_arg.value
    ELSE IF mask_function.given THEN circular(side, mask_function.value, FALSE)
    ELSE default_mask_function(side)

\* lines 22-25: the mask function, when given, replaces the mask
base_mask(side, mask_arg, mask_function) ==
    IF mask_function.given THEN circular(side, mask_function.value, FALSE)
    ELSE IF ~mask_arg.given /\ ~mask_function.given THEN default_mask_function(side)
    ELSE mask_arg.value

\* lines 27-30
with_inner_mask(m, side, inner_mask_radii) ==
    IF inner_mask_radii.given
    THEN mask_add(m, circular(side, inner_mask_radii.value, TRUE))
    ELSE m

\* setup_phase_mask(data, mask, mask_function, inner_mask_radii): no statement
\* of it raises
setup_phase_mask(side, mask_arg, mask_function, inner_mask_radii) ==
    Returned(with_inner_mask(base_mask(side, mask_arg, mask_function), side, inner_mask_radii))

\* squared radii: the centre pixel, the cross, the whole 3x3 array
RadiiSquared == {0, 1, 2}

MaskArguments == {None} \cup {Some(m) : m \in Masks}
MaskFunctions == {None} \cup {Some(r) : r \in RadiiSquared}
InnerMaskRadii == {None} \cup {Some(r) : r \in RadiiSquared}

\* one call with each combination of the arguments
SetupPhaseMask ==
    /\ call = NoCall
    /\ \E mask_arg \in MaskArguments, mask_function \in MaskFunctions,
          inner_mask_radii \in InnerMaskRadii :
           call' = [op |-> "setup_phase_mask",
                    arg |-> <<mask_arg, mask_function, inner_mask_radii>>,
                    result |-> setup_phase_mask(ImageSide, mask_arg, mask_function,
                                                inner_mask_radii)]
    /\ UNCHANGED <<objects, convolver_vars, fit_vars>>

MaskInit ==
    /\ mask = default_mask_function(ImageSide)
    /\ psf = NoBlurKernel
    /\ image_frame_indexes = make_image_frame_indexes(mask)
    /\ image_frame_psfs = make_image_frame_psfs(mask, psf)
    /\ image_frame_lengths = make_image_frame_lengths(mask)
    /\ call = NoCall
    /\ objects = NoObjects
    /\ NoFit

MaskNext == SetupPhaseMask

SpecMask == MaskInit /\ [][MaskNext]_vars

(***************************************************************************)
(* The geometry the claims about the convolver are stated in.              *)
(***************************************************************************)
\* the weight the kernel centred on cell a gives to cell b (0 out of reach)
KernelWeight(kernel, a, b) ==
    LET dr == b[1] - a[1] + Half
        dc == b[2] - a[2] + Half
    IN IF dr \in 0..(KernelSide - 1) /\ dc \in 0..(KernelSide - 1) THEN kernel[dr][dc] ELSE 0

KernelTotal(kernel) ==
    SumTo([k \in 0..(KernelMaxSize - 1) |-> kernel[k \div KernelSide][k % KernelSide]],
          KernelMaxSize)

\* the total weight of the taps of pixel i that land on unmasked pixels
LandedTotal(i) ==
    SumTo([t \in 0..(pixels_in_mask(mask) - 1) |->
              KernelWeight(psf, cell_of(mask, i), cell_of(mask, t))], pixels_in_mask(mask))

\* the weights recorded in the frame of pixel i: its first image_frame_lengths[i] slots
FrameTotal(i) ==
    SumTo([k \in 0..(KernelMaxSize - 1) |->
              IF k < image_frame_lengths[i] THEN image_frame_psfs[i][k] ELSE 0], KernelMaxSize)

\* the sum of column j of a matrix
ColumnTotal(m, j) == SumTo([i \in DOMAIN m |-> m[i][j]], Size(m))

\* pixel i has a tap of non-zero weight that lands on a masked pixel or off the image
LosesFlux(i) == LandedTotal(i) # KernelTotal(psf)

\* no other unmasked pixel is within the kernel's reach of pixel i
Isolated(i) ==
    \A t \in 0..(pixels_in_mask(mask) - 1) :
        t # i => LET a == cell_of(mask, i)
                     b == cell_of(mask, t)
                 IN b[1] - a[1] \notin (-Half)..Half \/ b[2] - a[2] \notin (-Half)..Half

Pixels == 0..(pixels_in_mask(mask) - 1)

(***************************************************************************)
(* C1.  Blurring a non-negative image vector v directly with the frames    *)
(* gives B.v, where B is convolve_mapping_matrix of the identity mapping   *)
(* matrix.                                                                 *)
(***************************************************************************)
C1_DirectEqualsIdentityColumns ==
    call.op = "convolve_image" =>
        call.result
            = MatVec(convolve_mapping_matrix(Identity(pixels_in_mask(mask), 1)), call.arg)

\* a blurring kernel on a mask where two pixels blur into each other and flux is lost
C1_Witness ==
    /\ call.op = "convolve_image"
    /\ psf = AsymKernel
    /\ pixels_in_mask(mask) >= 3
    /\ call.result # call.arg
    /\ \E i \in Pixels : image_frame_lengths[i] >= 3
    /\ \E i, k \in Pixels : call.arg[i] # call.arg[k]

(***************************************************************************)
(* C7.  Flux loss at the mask edge is silent: a tap that lands on a masked *)
(* pixel is in no frame and adds to no row of the blurred mapping matrix,  *)
(* which is always returned; an unmasked pixel with no unmasked pixel in   *)
(* reach adds only its centre weight, to its own row.                      *)
(***************************************************************************)
C7_FluxLossIsSilent ==
    /\ \A i \in Pixels :
          /\ image_frame_lengths[i]
                = Cardinality({t \in Pixels :
                      LET a == cell_of(mask, i)
                          b == cell_of(mask, t)
                      IN b[1] - a[1] \in (-Half)..Half /\ b[2] - a[2] \in (-Half)..Half})
          /\ \A k \in 0..(image_frame_lengths[i] - 1) : image_frame_indexes[i][k] \in Pixels
    /\ call.op = "convolve_mapping_matrix" =>
          /\ DOMAIN call.result = DOMAIN call.arg
          /\ \A t \in Pixels : \A j \in DOMAIN call.arg[0] :
                call.result[t][j]
                    = SumTo([i \in Pixels |->
                                IF call.arg[i][j] > 0
                                THEN call.arg[i][j]
                                         * KernelWeight(psf, cell_of(mask, i), cell_of(mask, t))
                                ELSE 0], pixels_in_mask(mask))
          /\ \A i \in Pixels : \A j \in DOMAIN call.arg[0] :
                (Isolated(i) /\ \A k \in Pixels : (k # i => call.arg[k][j] <= 0))
                    => \A t \in Pixels :
                          call.result[t][j]
                              = IF t = i /\ call.arg[i][j] > 0
                                THEN call.arg[i][j] * psf[Half][Half] ELSE 0

\* an isolated pixel that loses flux, and another pixel that loses some of its taps
C7_Witness ==
    /\ call.op = "convolve_mapping_matrix"
    /\ psf = DocKernel
    /\ \E i \in Pixels : \E j \in DOMAIN call.arg[0] :
          /\ Isolated(i) /\ LosesFlux(i)
          /\ call.arg[i][j] > 0
          /\ ColumnTotal(call.result, j) = call.arg[i][j] * psf[Half][Half]
    /\ \E i \in Pixels : ~Isolated(i) /\ LosesFlux(i)

(***************************************************************************)
(* C8.  As stated: the weights recorded in the frame of every unmasked     *)
(* pixel sum to the total of the PSF kernel.                               *)
(***************************************************************************)
C8_Original_FrameTotalIsKernelTotal ==
    \A i \in Pixels : FrameTotal(i) = KernelTotal(psf)

(***************************************************************************)
(* C8, amended.  The weights recorded in the frame of an unmasked pixel    *)
(* (the slots convolve_matrix_jit reads, i.e. column i of the blurred      *)
(* identity) sum to the total of the kernel taps that land on unmasked     *)
(* pixels: the kernel's total when every tap of non-zero weight lands on   *)
(* one, and less when one does not (the weights are not negative).         *)
(***************************************************************************)
C8_FrameTotalIsLandedTotal ==
    LET blurred_identity == convolve_mapping_matrix(Identity(pixels_in_mask(mask), 1))
    IN \A i \in Pixels :
          /\ FrameTotal(i) = LandedTotal(i)
          /\ ColumnTotal(blurred_identity, i) = LandedTotal(i)
          /\ FrameTotal(i) <= KernelTotal(psf)
          /\ (image_frame_lengths[i] = KernelMaxSize => FrameTotal(i) = KernelTotal(psf))

\* a pixel whose frame holds every tap, beside a pixel whose frame lost weight
C8_Witness ==
    /\ \E i \in Pixels : image_frame_lengths[i] < KernelMaxSize /\ FrameTotal(i) < KernelTotal(psf)
    /\ \E i \in Pixels : image_frame_lengths[i] >= 2 /\ FrameTotal(i) = KernelTotal(psf)

(***************************************************************************)
(* C9.  The worked example of the docstring: the cross mask, the kernel    *)
(* 0.1/0.6/0.1 and the 5x3 mapping matrix.                                 *)
(***************************************************************************)
CrossMask == [c \in Cells(ImageSide) |-> ~(c[1] = Half \/ c[2] = Half)]

DocExample ==
    /\ mask = CrossMask
    /\ psf = DocKernel
    /\ call.op = "convolve_mapping_matrix"
    /\ call.arg = PairedMatrix(pixels_in_mask(CrossMask), 1)

Minor(m, r, c) ==
    [i \in 0..(Size(m) - 2) |-> [j \in 0..(Size(m) - 2) |->
        m[IF i < r THEN i ELSE i + 1][IF j < c THEN j ELSE j + 1]]]

RECURSIVE Det(_)
\* the determinant, by expansion along the first row
Det(m) ==
    IF Size(m) = 1 THEN m[0][0]
    ELSE SumTo([j \in DOMAIN m |->
                   IF m[0][j] = 0 THEN 0
                   ELSE (IF j % 2 = 0 THEN 1 ELSE -1) * m[0][j] * Det(Minor(m, 0, j))],
               Size(m))

Leading(m, k) == [i \in 0..(k - 1) |-> [j \in 0..(k - 1) |-> m[i][j]]]

\* a symmetric matrix is positive-definite (every eigenvalue positive) exactly
\* when every leading principal minor is positive
IsPositiveDefinite(m) == \A k \in 1..Size(m) : Det(Leading(m, k)) > 0

\* log(det(matrix)) of a rational matrix with a positive determinant
LogDet(matrix) == Log(RNorm(Det(matrix.num), Power(matrix.den, Size(matrix.num))))

\* sum over the pixels of ((data - model) / noise)^2
ChiSquared(data, noise, model) ==
    Real(RSumTo([i \in DOMAIN data |->
                    RDiv(RMul(RSub(RInt(data[i]), model[i]), RSub(RInt(data[i]), model[i])),
                         RInt(noise[i] * noise[i]))],
                Size(data)))

RECURSIVE ProductTo(_, _)
ProductTo(f, n) == IF n = 0 THEN 1 ELSE ProductTo(f, n - 1) * f[n - 1]

\* sum over the pixels of log(2 pi noise^2)
NoiseNormalization(noise) ==
    [fp |-> "finite", rat |-> RZero, coef |-> ROne, k2pi |-> Size(noise),
     arg |-> RInt(ProductTo([i \in DOMAIN noise |-> noise[i] * noise[i]], Size(noise)))]

\* W (F + R) of the fit that is running, from the tracer's matrices
NormalMatrix ==
    LET blurred == convolve_mapping_matrix(tracer.mapping_matrix)
        F == WeightedCovariance(blurred, image.background_noise)
        W == LcmOfSquaresTo(image.background_noise, Size(image.background_noise))
    IN [j \in DOMAIN F |-> [k \in DOMAIN F |-> F[j][k] + W * tracer.regularization[j][k]]]

PixelizationDone == fit = "fit_data_with_pixelization" /\ pc = "done"
ProfilesDone == fit = "fit_data_with_profiles" /\ pc = "done"

\* the model image equals the data at every unmasked pixel
ModelEqualsData ==
    /\ DOMAIN model_image = DOMAIN image.data
    /\ \A i \in DOMAIN image.data : model_image[i] = RInt(image.data[i])

(***************************************************************************)
(* C2.  compute_pixelization_evidence returns exactly                      *)
(* -0.5 * (chi_squared + regularization_term + log_det(F+R) - log_det(R)   *)
(*         + noise_normalization),                                         *)
(* with F+R = pix_fit.covariance_regularization and R =                    *)
(* pix_fit.regularization.                                                 *)
(***************************************************************************)
C2_EvidenceFormula ==
    (PixelizationDone /\ result.kind = "returned") =>
        result.value
            = Times(MinusHalf,
                Plus(Minus(Plus(Plus(ChiSquared(image.data, image.background_noise, model_image),
                                     regularization_term_from_reconstruction(pix_fit)),
                                LogDet(pix_fit.covariance_regularization)),
                           LogDet(pix_fit.regularization)),
                     NoiseNormalization(image.background_noise)))

\* an evidence with every term at work: a residual, a regularization term, two
\* determinants that differ from 1, a noise map that is not uniform
C2_Witness ==
    /\ PixelizationDone /\ result.kind = "returned"
    /\ psf = FitBlurKernel
    /\ compute_chi_sq_term(image.data, image.background_noise, model_image) # Real(RZero)
    /\ regularization_term_from_reconstruction(pix_fit) # Real(RZero)
    /\ Det(pix_fit.regularization.num) > 1
    /\ Det(pix_fit.covariance_regularization.num) > 1
    /\ \E i, k \in DOMAIN image.data : image.background_noise[i] # image.background_noise[k]

(***************************************************************************)
(* C3.  The profile-only fit builds no pixelization and no inversion: it   *)
(* blurs the tracer's light-profile image together with its blurring-      *)
(* region image and returns -0.5 * (chi_squared + noise_term) with the     *)
(* image's own background noise, without regularization or determinant.    *)
(***************************************************************************)
\* the light-profile image and the blurring-region image, blurred with the kernel
BlurredLightProfiles ==
    [t \in DOMAIN tracer.image_light_profile |->
        RInt(SumTo([i \in DOMAIN tracer.image_light_profile |->
                       tracer.image_light_profile[i]
                           * KernelWeight(psf, cell_of(mask, i), cell_of(mask, t))],
                   Size(tracer.image_light_profile))
             + SumTo([b \in DOMAIN tracer.blurring_image_light_profile |->
                         tracer.blurring_image_light_profile[b]
                             * KernelWeight(psf, blurring_cell_of(mask, b), cell_of(mask, t))],
                     Size(tracer.blurring_image_light_profile)))]

C3_ProfilesLikelihood ==
    /\ fit = "fit_data_with_profiles" => ~pix_pre_fit.set /\ ~pix_fit.set
    /\ ProfilesDone =>
          /\ model_image = BlurredLightProfiles
          /\ result
                = Returned(Times(MinusHalf,
                      Plus(ChiSquared(image.data, image.background_noise, BlurredLightProfiles),
                           NoiseNormalization(image.background_noise))))

\* a profile fit where the blurring region sends flux into the mask
C3_Witness ==
    /\ ProfilesDone
    /\ psf = FitBlurKernel
    /\ \E b \in DOMAIN tracer.blurring_image_light_profile :
          tracer.blurring_image_light_profile[b] > 0
    /\ model_image # [i \in DOMAIN model_image |->
                          RInt(convolve_image(tracer.image_light_profile, image_frame_indexes,
                                              image_frame_psfs, image_frame_lengths)[i])]
    /\ \E i, k \in DOMAIN image.data : image.background_noise[i] # image.background_noise[k]

ScenarioDone == PixelizationDone /\ mask = ScenarioMask

StepOrder ==
    {<<"idle", "generate_pixelization_matrices">>,
     <<"generate_pixelization_matrices", "fit_image_via_inversion">>,
     <<"fit_image_via_inversion", "model_image_from_reconstruction">>,
     <<"fit_image_via_inversion", "done">>,
     <<"model_image_from_reconstruction", "compute_pixelization_evidence">>,
     <<"compute_pixelization_evidence", "done">>}

\* one step of the call: the position moves along StepOrder and each step
\* writes the one object it produces
C10_Step ==
    fit' = "fit_data_with_pixelization" =>
        /\ <<pc, pc'>> \in StepOrder
        /\ pc' = "fit_image_via_inversion" =>
              /\ pix_pre_fit'.set /\ ~pix_pre_fit.set
              /\ pix_pre_fit'.mapping_matrix = tracer.mapping_matrix
              /\ pix_pre_fit'.regularization = tracer.regularization
        /\ pc = "fit_image_via_inversion" =>
              /\ pix_pre_fit.set /\ ~pix_fit.set /\ UNCHANGED pix_pre_fit
              /\ pix_fit'.set = (pc' = "model_image_from_reconstruction")
              /\ pix_fit'.set => pix_fit'.regularization.num = pix_pre_fit.regularization
        /\ pc = "model_image_from_reconstruction" =>
              /\ pix_fit.set /\ UNCHANGED pix_fit /\ model_image = <<>>
              /\ model_image' = model_image_from_reconstruction(pix_fit)
        /\ pc = "compute_pixelization_evidence" =>
              /\ UNCHANGED <<pix_fit, model_image>> /\ result = NoResult
              /\ result' # NoResult

\* the evidence that comes back is the one of pix_fit's own matrices and of
\* the model image of pix_fit's own reconstruction
C10_FromPixFit ==
    (PixelizationDone /\ result.kind = "returned") =>
        /\ pix_fit.set
        /\ result.value
              = Times(MinusHalf,
                  Plus(Minus(Plus(Plus(ChiSquared(image.data, image.background_noise,
                                                  model_image_from_reconstruction(pix_fit)),
                                       regularization_term_from_reconstruction(pix_fit)),
                                  Log(RNorm(Det(pix_fit.covariance_regularization.num),
                                            Power(pix_fit.covariance_regularization.den,
                                                  Size(pix_fit.reconstruction))))),
                             Log(RInt(Det(pix_fit.regularization.num)))),
                       NoiseNormalization(image.background_noise)))

C10_StepsInOrderFromOnePixFit == [][C10_Step]_vars /\ []C10_FromPixFit

\* a returned evidence of a blurred fit with a noise map that is not uniform, so
\* that F rebuilt from other inputs would differ from pix_fit's
C10_Witness ==
    /\ PixelizationDone /\ result.kind = "returned"
    /\ psf = FitBlurKernel
    /\ pixels_in_mask(mask) >= 2
    /\ \E i, k \in DOMAIN image.data : image.background_noise[i] # image.background_noise[k]
    /\ model_image = model_image_from_reconstruction(pix_fit)
    /\ ~ModelEqualsData

(***************************************************************************)
(* C11.  For every input, a noise map with a zero entry included,          *)
(* compute_likelihood and compute_pixelization_evidence either return a    *)
(* finite value or fail with a typed error; they never return a NaN or an  *)
(* infinite value.                                                         *)
(***************************************************************************)
DirectCallDone ==
    /\ fit \in {"compute_likelihood", "compute_pixelization_evidence"}
    /\ pc = "done"

HasZeroNoise == \E i \in DOMAIN image.background_noise : image.background_noise[i] = 0

C11_ReturnsFiniteOrRaises ==
    DirectCallDone => (result.kind = "raised" \/ IsFinite(result.value))

\* what the code does: a value that comes back is finite exactly when no noise
\* entry is 0, and with a zero entry it is nan: the chi-squared term is inf or
\* nan and the noise term is -inf
C11_ZeroNoiseReturnsNaN ==
    (DirectCallDone /\ result.kind = "returned") =>
        /\ IsFinite(result.value) <=> ~HasZeroNoise
        /\ HasZeroNoise =>
              /\ result.value = NaN
              /\ compute_chi_sq_term(image.data, image.background_noise, model_image)
                    \in {PosInf, NaN}
              /\ compute_noise_term(image.background_noise) = NegInf

\* both functions have returned nan on a noise map with a zero entry
C11_Witness ==
    /\ DirectCallDone
    /\ fit = "compute_pixelization_evidence"
    /\ HasZeroNoise
    /\ \E i \in DOMAIN image.background_noise : image.background_noise[i] # 0
    /\ result = Returned(NaN)

(***************************************************************************)
(* C12.  Every mask handed to a fit has at least one unmasked (False)      *)
(* pixel: setup_phase_mask either returns a mask with at least one False   *)
(* pixel or fails with MaskConfigurationError, also when the inverted      *)
(* inner circular mask is added to the base mask.                          *)
(***************************************************************************)
SetupPhaseMaskDone == call.op = "setup_phase_mask"

C12_MaskHasUnmaskedPixel ==
    SetupPhaseMaskDone =>
        \/ call.result = Raised("MaskConfigurationError")
        \/ call.result.kind = "returned" /\ pixels_in_mask(call.result.value) >= 1

\* what the code does: it always returns, and the mask it returns is empty
\* exactly when the inner radius covers every unmasked pixel of the base mask
C12_EmptyWhenInnerCoversBase ==
    SetupPhaseMaskDone =>
        LET base == base_mask(ImageSide, call.arg[1], call.arg[2])
            inner == call.arg[3]
        IN /\ call.result.kind = "returned"
           /\ pixels_in_mask(base) >= 1
           /\ pixels_in_mask(call.result.value) = 0
                 <=> /\ inner.given
                     /\ \A c \in Unmasked(base) : RadiusSquared(ImageSide, c) <= inner.value

\* a base mask with unmasked pixels comes back with none
C12_Witness ==
    /\ SetupPhaseMaskDone
    /\ ~call.arg[1].given /\ ~call.arg[2].given /\ call.arg[3].given
    /\ pixels_in_mask(default_mask_function(ImageSide)) = ImageSide * ImageSide
    /\ call.result.kind = "returned"
    /\ pixels_in_mask(call.result.value) = 0

(***************************************************************************)
(* The additions of convolve_matrix_jit (line 116), one per (source pixel, *)
(* image pixel, kernel tap) that the loops reach, executed one at a time   *)
(* in any order: call.pending holds the additions not yet executed and     *)
(* call.result the matrix accumulated so far.                              *)
(***************************************************************************)
\* the iterations of the three loops that reach line 116
Additions(mapping_matrix) ==
    {t \in (DOMAIN mapping_matrix[0]) \X (DOMAIN mapping_matrix) \X (0..(KernelMaxSize - 1)) :
        /\ contributes(mapping_matrix[t[2]][t[1]])
        /\ t[3] < frame_range(image_frame_lengths[t[2]])}

\* the row an addition writes to
vector_index_of(t) == Wrap(image_frame_indexes[t[2]][t[3]], pixels_in_mask(mask))

\* mapping matrices with one non-zero entry per row: some with one image pixel
\* per source pixel, some with several
ParallelMappingMatrices(n) ==
    {Identity(n, a) : a \in 1..MaxValue} \cup {PairedMatrix(n, a) : a \in 1..MaxValue}
        \cup {FirstOnlyMatrix(n)}

\* line 100, and the work handed out
StartConvolve ==
    /\ call = NoCall
    /\ \E mapping_matrix \in ParallelMappingMatrices(pixels_in_mask(mask)) :
          call' = [op |-> "convolve_matrix_jit", arg |-> mapping_matrix,
                   result |-> Zeros(Size(mapping_matrix), Size(mapping_matrix[0])),
                   pending |-> Additions(mapping_matrix)]
    /\ UNCHANGED <<objects, convolver_vars, fit_vars>>

\* lines 114-116, for any addition that is still to be made
AddTap ==
    /\ call.op = "convolve_matrix_jit"
    /\ \E t \in call.pending :
          call' = [call EXCEPT
                     !.result = accumulate(call.result, image_frame_indexes[t[2]][t[3]], t[1],
                                           call.arg[t[2]][t[1]], image_frame_psfs[t[2]][t[3]]),
                     !.pending = call.pending \ {t}]
    /\ UNCHANGED <<objects, convolver_vars, fit_vars>>

ParallelInit ==
    /\ \E k \in 1..(MaxFitPixels + 1) : mask = FitMask(k)
    /\ psf \in {DocKernel, AsymKernel}
    /\ image_frame_indexes = make_image_frame_indexes(mask)
    /\ image_frame_psfs = make_image_frame_psfs(mask, psf)
    /\ image_frame_lengths = make_image_frame_lengths(mask)
    /\ call = NoCall
    /\ objects = NoObjects
    /\ NoFit

ParallelNext ==
    \/ StartConvolve
    \/ AddTap

SpecParallel == ParallelInit /\ [][ParallelNext]_vars

(***************************************************************************)
(* C13.  The blurred mapping matrix does not depend on the order of        *)
(* accumulation: executing the per-(source pixel, image pixel, kernel tap) *)
(* additions of convolve_matrix_jit in any order or interleaving yields    *)
(* the same final matrix (in exact arithmetic) as the sequential nested    *)
(* loop.                                                                   *)
(***************************************************************************)
AllAdditionsDone == call.op = "convolve_matrix_jit" /\ call.pending = {}

C13_AnyOrderSameMatrix ==
    AllAdditionsDone =>
        call.result = convolve_matrix_jit(call.arg, image_frame_indexes, image_frame_psfs,
                                          image_frame_lengths)

\* all additions made, several of them with non-zero products into one entry
C13_Witness ==
    /\ AllAdditionsDone
    /\ \E t, u \in Additions(call.arg) :
          /\ t # u
          /\ t[1] = u[1]
          /\ vector_index_of(t) = vector_index_of(u)
          /\ image_frame_psfs[t[2]][t[3]] > 0
          /\ image_frame_psfs[u[2]][u[3]] > 0
          /\ image_frame_psfs[t[2]][t[3]] * call.arg[t[2]][t[1]]
                # image_frame_psfs[u[2]][u[3]] * call.arg[u[2]][u[1]]

(***************************************************************************)
(* C14.  The convolver is shared read-only: convolve_mapping_matrix never  *)
(* writes to the frame tables or to the input mapping matrix, so after any *)
(* sequence of convolutions the convolver is unchanged and convolving the  *)
(* same mapping matrix again returns the same, freshly allocated result of *)
(* the same shape.                                                         *)
(***************************************************************************)
\* one call, after any number of earlier calls
C14_Call ==
    call'.op = "convolve_mapping_matrix" =>
        /\ convolver_vars' = convolver_vars
        /\ call'.arg_after = call'.arg
        /\ call'.result_object \notin {"mapping_matrix", "image_frame_indexes",
                                       "image_frame_psfs", "image_frame_lengths"}

\* the result is the one a convolver just built from the mask and the PSF
\* returns for that mapping matrix, and it has the shape of the mapping matrix
C14_SameResult ==
    call.op = "convolve_mapping_matrix" =>
        /\ image_frame_indexes = make_image_frame_indexes(mask)
        /\ image_frame_psfs = make_image_frame_psfs(mask, psf)
        /\ image_frame_lengths = make_image_frame_lengths(mask)
        /\ call.result = convolve_matrix_jit(call.arg, make_image_frame_indexes(mask),
                                             make_image_frame_psfs(mask, psf),
                                             make_image_frame_lengths(mask))
        /\ DOMAIN call.result = DOMAIN call.arg
        /\ \A i \in DOMAIN call.arg : DOMAIN call.result[i] = DOMAIN call.arg[i]

C14_ConvolverReadOnly == [][C14_Call]_vars /\ []C14_SameResult

\* a call that blurs: the result differs from the mapping matrix, which is as
\* it was handed in
C14_Witness ==
    /\ call.op = "convolve_mapping_matrix"
    /\ psf = AsymKernel
    /\ pixels_in_mask(mask) >= 2
    /\ call.result # call.arg
    /\ call.arg_after = call.arg
    /\ call.result_object = "blurred_mapping_matrix"

(***************************************************************************)
(* C15.  Round trip of the inversion: for noiseless data generated as      *)
(* d = M.s0 from a known reconstruction vector s0 and blurred mapping      *)
(* matrix M, solving the regularized normal equations                      *)
(* (F + R).s = M^T.diag(1/noise^2).d returns s = s0, and the model image   *)
(* M.s reproduces d.                                                       *)
(***************************************************************************)
\* the mapping matrix of the tracer blurred with the kernel, from the geometry
BlurredByGeometry ==
    [t \in DOMAIN tracer.mapping_matrix |-> [j \in DOMAIN tracer.mapping_matrix[0] |->
        SumTo([i \in DOMAIN tracer.mapping_matrix |->
                  tracer.mapping_matrix[i][j]
                      * KernelWeight(psf, cell_of(mask, i), cell_of(mask, t))],
              Size(tracer.mapping_matrix))]]

\* the reconstruction vectors s0 the data of the fit can have been generated
\* from: d = M.s0
Generators ==
    {s0 \in ImageVectors(Size(tracer.mapping_matrix[0]))
                \cup {[j \in DOMAIN tracer.mapping_matrix[0] |-> 0]} :
        MatVec(BlurredByGeometry, s0) = image.data}

\* R.s0 = 0: the regularization does not penalise s0
Unpenalised(s0) ==
    \A j \in DOMAIN s0 :
        SumTo([k \in DOMAIN s0 |-> tracer.regularization[j][k] * s0[k]], Size(s0)) = 0

InversionDone == PixelizationDone /\ pix_fit.set

C15_Original_RoundTrip ==
    InversionDone =>
        \A s0 \in Generators :
            /\ pix_fit.reconstruction = [j \in DOMAIN s0 |-> RInt(s0[j])]
            /\ ModelEqualsData

\* the solve returns s0 exactly when R.s0 = 0, and then the model image is the
\* data; otherwise the regularization moves the solution away from s0
C15_RoundTripWhenUnpenalised ==
    InversionDone =>
        \A s0 \in Generators :
            /\ (pix_fit.reconstruction = [j \in DOMAIN s0 |-> RInt(s0[j])]) <=> Unpenalised(s0)
            /\ Unpenalised(s0) => ModelEqualsData

\* blurred data of a uniform source of two pixels, recovered under a
\* regularization that penalises only differences between neighbours
C15_Witness ==
    /\ InversionDone
    /\ psf = FitBlurKernel
    /\ Size(pix_fit.reconstruction) >= 2
    /\ \E j, k \in DOMAIN tracer.regularization : tracer.regularization[j][k] # 0
    /\ \E s0 \in Generators :
          /\ \E j \in DOMAIN s0 : s0[j] # 0
          /\ Unpenalised(s0)
          /\ pix_fit.reconstruction = [j \in DOMAIN s0 |-> RInt(s0[j])]
    /\ ModelEqualsData

(***************************************************************************)
(* The analyses of the galaxy-fit phase (phase.py, GalaxyFitPhase).  An     *)
(* analysis is an object: a record of its attributes.  A method that can    *)
(* assign to self gives a record: self after the call, the value returned   *)
(* and the plots written.                                                    *)
(***************************************************************************)

\* the longest sequence of calls made on one analysis, and of runs of a phase
MaxCalls == 3

\* the values of the output section of the configuration that visualize reads
Configurations ==
    [plot_galaxy_fit_as_subplot : BOOLEAN,
     plot_ray_tracing_all_at_end_png : BOOLEAN,
     plot_ray_tracing_all_at_end_fits : BOOLEAN]

\* the data of one galaxy quantity on the unmasked pixels, with its noise map
GalaxyDatas ==
    {[image |-> d, noise_map |-> n] : d \in ImageVectors(2), n \in NoiseMaps(2)}

\* a model instance of the optimizer: its galaxies give one value per pixel
Instances == {[galaxies |-> g] : g \in 0..MaxValue}

\* GalaxyFit(galaxy_data, model_galaxies): the fit of the model galaxies to
\* the data; its figure of merit is the likelihood of the model data
GalaxyFit(galaxy_data, model_galaxies) ==
    [galaxy_data |-> galaxy_data,
     model_galaxies |-> model_galaxies,
     figure_of_merit |->
        compute_likelihood(galaxy_data.image, galaxy_data.noise_map,
                           [i \in DOMAIN galaxy_data.image |-> RInt(model_galaxies)])]

\* GalaxyFitPhase.Analysis.__init__ and the __init__ of its bases
Analysis(class, cosmology, results, configuration) ==
    [class |-> class,
     results |-> results,
     cosmology |-> cosmology,
     plot_count |-> 0,
     plot_galaxy_fit_as_subplot |-> configuration.plot_galaxy_fit_as_subplot,
     plot_ray_tracing_all_at_end_png |-> configuration.plot_ray_tracing_all_at_end_png,
     plot_ray_tracing_all_at_end_fits |-> configuration.plot_ray_tracing_all_at_end_fits,
     galaxy_data |-> None,
     galaxy_data_y |-> None,
     galaxy_data_x |-> None]

AnalysisSingle(galaxy_data, cosmology, results, configuration) ==
    [Analysis("AnalysisSingle", cosmology, results, configuration)
        EXCEPT !.galaxy_data = Some(galaxy_data)]

AnalysisDeflections(galaxy_data_y, galaxy_data_x, cosmology, results, configuration) ==
    [Analysis("AnalysisDeflections", cosmology, results, configuration)
        EXCEPT !.galaxy_data_y = Some(galaxy_data_y), !.galaxy_data_x = Some(galaxy_data_x)]

AnalysisSingle_fit_for_instance(self, instance) ==
    GalaxyFit(self.galaxy_data.value, instance.galaxies)

AnalysisSingle_fit(self, instance) ==
    [self |-> self,
     value |-> AnalysisSingle_fit_for_instance(self, instance).figure_of_merit,
     plots |-> {}]

\* the plots of one fit that visualize writes: the kind of plot and its path
plots_of(self, prefix, fits_prefix, during_analysis) ==
    (IF self.plot_galaxy_fit_as_subplot THEN {<<"subplot", prefix, "png">>} ELSE {})
    \cup (IF during_analysis
          THEN {<<"individuals", prefix, "png">>}
          ELSE (IF self.plot_ray_tracing_all_at_end_png
                THEN {<<"individuals", prefix, "png">>} ELSE {})
               \cup (IF self.plot_ray_tracing_all_at_end_fits
                     THEN {<<"individuals", fits_prefix, "fits">>} ELSE {}))

\* the mutant of plot_count_after: visualize that does not count
plot_count_kept(plot_count) == plot_count

\* self.plot_count += 1
plot_count_after(plot_count) == plot_count + 1

AnalysisSingle_visualize(self, instance, during_analysis) ==
    LET counted == [self EXCEPT !.plot_count = plot_count_after(@)]
    IN  [self |-> counted,
         value |-> AnalysisSingle_fit_for_instance(counted, instance),
         plots |-> plots_of(counted, "", "/fits/", during_analysis)]

AnalysisDeflections_fit_for_instance(self, instance) ==
    <<GalaxyFit(self.galaxy_data_y.value, instance.galaxies),
      GalaxyFit(self.galaxy_data_x.value, instance.galaxies)>>

AnalysisDeflections_fit(self, instance) ==
    LET fits == AnalysisDeflections_fit_for_instance(self, instance)
    IN  [self |-> self,
         value |-> Plus(fits[1].figure_of_merit, fits[2].figure_of_merit),
         plots |-> {}]

AnalysisDeflections_visualize(self, instance, during_analysis) ==
    LET counted == [self EXCEPT !.plot_count = plot_count_after(@)]
    IN  [self |-> counted,
         value |-> AnalysisDeflections_fit_for_instance(counted, instance),
         plots |-> plots_of(counted, "/fit_y_", "/fits/fit_y", during_analysis)
                   \cup plots_of(counted, "/fit_x_", "/fits/fit_x", during_analysis)]

\* the analyses a phase can hand to the optimizer, with the data they were made from
MadeAnalyses ==
    {[made |-> TRUE, galaxy_data |-> <<y>>, calls |-> <<>>,
      analysis |-> AnalysisSingle(y, "Planck15", None, c)] :
        y \in GalaxyDatas, c \in Configurations}
    \cup {[made |-> TRUE, galaxy_data |-> <<y, x>>, calls |-> <<>>,
           analysis |-> AnalysisDeflections(y, x, "Planck15", None, c)] :
            y \in GalaxyDatas, x \in {[image |-> [i \in 0..1 |-> 1], noise_map |-> [i \in 0..1 |-> 1]]},
            c \in Configurations}

\* one call of a method of the analysis: the analysis is what the method left
AnalysisCalled(op, arg, returned) ==
    /\ call' = [op |-> op, arg |-> arg, result |-> returned.value, plots |-> returned.plots]
    /\ objects' = [objects EXCEPT !.analysis = returned.self, !.calls = Append(@, op)]
    /\ UNCHANGED <<convolver_vars, fit_vars>>

AnalysisSingleFit ==
    /\ objects.made /\ Len(objects.calls) < MaxCalls
    /\ objects.analysis.class = "AnalysisSingle"
    /\ \E instance \in Instances :
          AnalysisCalled("fit", <<instance>>, AnalysisSingle_fit(objects.analysis, instance))

AnalysisSingleVisualize ==
    /\ objects.made /\ Len(objects.calls) < MaxCalls
    /\ objects.analysis.class = "AnalysisSingle"
    /\ \E instance \in Instances, during_analysis \in BOOLEAN :
          AnalysisCalled("visualize", <<instance, during_analysis>>,
                         AnalysisSingle_visualize(objects.analysis, instance, during_analysis))

AnalysisDeflectionsFit ==
    /\ objects.made /\ Len(objects.calls) < MaxCalls
    /\ objects.analysis.class = "AnalysisDeflections"
    /\ \E instance \in Instances :
          AnalysisCalled("fit", <<instance>>, AnalysisDeflections_fit(objects.analysis, instance))

AnalysisDeflectionsVisualize ==
    /\ objects.made /\ Len(objects.calls) < MaxCalls
    /\ objects.analysis.class = "AnalysisDeflections"
    /\ \E instance \in Instances, during_analysis \in BOOLEAN :
          AnalysisCalled("visualize", <<instance, during_analysis>>,
                         AnalysisDeflections_visualize(objects.analysis, instance, during_analysis))

AnalysisInit ==
    /\ mask = default_mask_function(ImageSide)
    /\ psf = NoBlurKernel
    /\ image_frame_indexes = make_image_frame_indexes(mask)
    /\ image_frame_psfs = make_image_frame_psfs(mask, psf)
    /\ image_frame_lengths = make_image_frame_lengths(mask)
    /\ call = NoCall
    /\ objects \in MadeAnalyses
    /\ NoFit

AnalysisNext ==
    \/ AnalysisSingleFit
    \/ AnalysisSingleVisualize
    \/ AnalysisDeflectionsFit
    \/ AnalysisDeflectionsVisualize

SpecAnalysis == AnalysisInit /\ [][AnalysisNext]_vars

(***************************************************************************)
(* C16: fit changes no attribute of the analysis, visualize changes only   *)
(* plot_count, by one; so plot_count is the number of visualize calls and  *)
(* what fit returns is a function of the instance and the data alone.       *)
(***************************************************************************)

\* the visualize calls among the calls made so far
VisualizeCalls(calls) == Cardinality({i \in DOMAIN calls : calls[i] = "visualize"})

\* the figure of merit of one data set, restated from the likelihood formula
FigureOfMerit(galaxy_data, instance) ==
    LET model == [i \in DOMAIN galaxy_data.image |-> RInt(instance.galaxies)]
    IN  Times(MinusHalf, Plus(ChiSquared(galaxy_data.image, galaxy_data.noise_map, model),
                              NoiseNormalization(galaxy_data.noise_map)))

\* the figure of merit of all the data sets the analysis was made from
FigureOfMeritOfData(data, instance) ==
    IF Len(data) = 1
    THEN FigureOfMerit(data[1], instance)
    ELSE Plus(FigureOfMerit(data[1], instance), FigureOfMerit(data[2], instance))

C16_Step ==
    /\ objects'.galaxy_data = objects.galaxy_data
    /\ call'.op = "fit" => objects'.analysis = objects.analysis
    /\ call'.op = "visualize" =>
          objects'.analysis = [objects.analysis EXCEPT !.plot_count = @ + 1]

C16_State ==
    objects.made =>
        /\ objects.analysis.plot_count = VisualizeCalls(objects.calls)
        /\ call.op = "fit" => call.result = FigureOfMeritOfData(objects.galaxy_data, call.arg[1])

\* C16: a fit leaves every attribute of the analysis as it was and a visualize
\* adds exactly one to plot_count and changes nothing else; after any sequence
\* of calls plot_count is the number of visualize calls, and the value of fit
\* is the figure of merit of the instance on the data the analysis was made from
C16_FitHasNoSideEffect == [][C16_Step]_vars /\ []C16_State

\* both kinds of call were made on one analysis, a fit last
C16_Witness ==
    /\ objects.made
    /\ Len(objects.calls) = MaxCalls
    /\ VisualizeCalls(objects.calls) = 2
    /\ call.op = "fit"
    /\ objects.analysis.class = "AnalysisDeflections"

(***************************************************************************)
(* Hyper phases (hyper_phase.py).  The objects live on a heap: a sequence   *)
(* of records, an object's reference being its index.  Attributes that are  *)
(* objects hold references, so that a copy and an alias differ.             *)
(***************************************************************************)

\* a list object, an optimizer, a phase, a results collection, a result
ListObject(items) == [class |-> "list", items |-> items]

Optimizer(phase_name, phase_tag, name_extension) ==
    [class |-> "Optimizer", phase_name |-> phase_name, phase_tag |-> phase_tag,
     name_extension |-> name_extension]

PhaseObject(phase_name, phase_tag, phase_folders, optimizer, preload) ==
    [class |-> "Phase", phase_name |-> phase_name, phase_tag |-> phase_tag,
     phase_folders |-> phase_folders, optimizer |-> optimizer,
     pass_priors |-> "AbstractPhase.pass_priors", preload_pixelization_grid |-> preload]

ResultsCollection(entries) == [class |-> "ResultsCollection", entries |-> entries]

ResultObject(figure_of_merit) ==
    [class |-> "Result",
     attributes |-> [n \in {"constant", "figure_of_merit"} |->
                        IF n = "constant" THEN 0 ELSE figure_of_merit]]

\* HyperPhase.__init__
HyperPhase(phase, hyper_name) == [phase |-> phase, hyper_name |-> hyper_name]

\* a new object on the heap: the heap after it, and the reference of the object
Allocated(heap, object) == [heap |-> Append(heap, object), value |-> Len(heap) + 1]

\* the mutant of deepcopy_phase: the phase itself, not a copy
phase_aliased(heap, phase) == [heap |-> heap, value |-> phase]

\* copy.deepcopy of a phase: the phase and the objects it holds, copied
deepcopy_phase(heap, phase) ==
    LET folders == Allocated(heap, heap[heap[phase].phase_folders])
        optimizer == Allocated(folders.heap, heap[heap[phase].optimizer])
    IN  Allocated(optimizer.heap,
                  [heap[phase] EXCEPT !.phase_folders = folders.value,
                                      !.optimizer = optimizer.value])

\* copy.deepcopy of the entries of a results collection, the first n of them
RECURSIVE deepcopy_entries(_, _, _)
deepcopy_entries(heap, entries, n) ==
    IF n = 0
    THEN [heap |-> heap, value |-> <<>>]
    ELSE LET before == deepcopy_entries(heap, entries, n - 1)
             copied == Allocated(before.heap, heap[entries[n][2]])
         IN  [heap |-> copied.heap,
              value |-> Append(before.value, <<entries[n][1], copied.value>>)]

\* the mutant of results_of_run: the caller's collection itself is used
results_of_run_aliased(heap, results) ==
    IF results.given
    THEN [heap |-> heap, value |-> results.value]
    ELSE Allocated(heap, ResultsCollection(<<>>))

\* copy.deepcopy(results) if results is not None else af.ResultsCollection()
results_of_run(heap, results) ==
    IF results.given
    THEN LET entries == deepcopy_entries(heap, heap[results.value].entries,
                                         Len(heap[results.value].entries))
         IN  Allocated(entries.heap, ResultsCollection(entries.value))
    ELSE Allocated(heap, ResultsCollection(<<>>))

\* the mutant of results_add: the result is not added
results_add_skipped(heap, results, phase_name, added) == heap

\* results.add(phase_name, result)
results_add(heap, results, phase_name, added) ==
    [heap EXCEPT ![results].entries = Append(@, <<phase_name, added>>)]

\* setattr(result, name, value)
setattr(heap, object, name, value) ==
    [heap EXCEPT ![object].attributes =
        [n \in DOMAIN @ \cup {name} |-> IF n = name THEN value ELSE @[n]]]

\* optimizer.copy_with_name_extension(extension): a new optimizer that carries
\* the extension in its name
copy_with_name_extension(heap, optimizer, extension) ==
    Allocated(heap, [heap[optimizer] EXCEPT !.name_extension = extension])

make_hyper_phase(heap, self) ==
    LET copied == deepcopy_phase(heap, self.phase)
        phase == copied.value
        phase_folders == copied.heap[phase].phase_folders
        appended == [copied.heap EXCEPT ![phase_folders].items =
                        Append(@, copied.heap[phase].phase_name)]
        optimizer == copy_with_name_extension(
                        appended, appended[phase].optimizer,
                        self.hyper_name \o "_" \o appended[phase].phase_tag)
    IN  [heap |-> [optimizer.heap EXCEPT
                      ![phase].optimizer = optimizer.value,
                      ![optimizer.value].phase_tag = "",
                      ![phase].phase_tag = "",
                      ![phase].pass_priors = "HyperPhase.pass_priors",
                      ![phase].preload_pixelization_grid = None],
         value |-> phase]

\* the phases a hyper phase wraps, the caller's results and the hyper phase
HyperObjects ==
    {[made |-> TRUE,
      heap |-> <<ListObject(folders),
                 Optimizer(phase_name, phase_tag, ""),
                 PhaseObject(phase_name, phase_tag, 1, 2, preload),
                 ResultObject(1),
                 ResultsCollection(entries)>>,
      hyper |-> HyperPhase(3, hyper_name),
      caller_results |-> 5,
      hyper_phases |-> <<>>,
      calls |-> <<>>] :
        folders \in {<<>>, <<"pipeline">>},
        phase_name \in {"phase"},
        phase_tag \in {"", "_sub_2"},
        preload \in {None, Some("grid")},
        entries \in {<<>>, << <<"previous", 4>> >>, << <<"phase", 4>> >>},
        hyper_name \in {"hyper_galaxy", "constant"}}

\* the frame of HyperPhase.run: its arguments and its locals
RunFrame(data, results) ==
    [op |-> "HyperPhase.run", arg |-> <<data, results>>, result |-> None,
     results |-> None, hyper_result |-> None]

\* make_hyper_phase()
MakeHyperPhase ==
    /\ objects.made /\ pc = "idle"
    /\ Len(objects.hyper_phases) < MaxCalls
    /\ LET made == make_hyper_phase(objects.heap, objects.hyper)
       IN  objects' = [objects EXCEPT !.heap = made.heap,
                                      !.hyper_phases = Append(@, made.value)]
    /\ UNCHANGED <<convolver_vars, call, fit_vars>>

\* run is called: lines 83 to 85
HyperPhaseRun ==
    /\ objects.made /\ pc = "idle"
    /\ \E data \in {"imaging", "interferometer"},
          results \in {None, Some(objects.caller_results)} :
          LET copied == results_of_run(objects.heap, results)
          IN  /\ objects' = [objects EXCEPT !.heap = copied.heap]
              /\ call' = [RunFrame(data, results) EXCEPT !.results = Some(copied.value)]
    /\ pc' = "phase.run"
    /\ UNCHANGED <<convolver_vars, image, tracer, fit, pix_pre_fit, pix_fit, model_image, result>>

\* result = self.phase.run(data, results=results, **kwargs): line 87
PhaseRun ==
    /\ pc = "phase.run"
    /\ \/ \E figure_of_merit \in 1..MaxValue :
             LET made == Allocated(objects.heap, ResultObject(figure_of_merit))
             IN  /\ objects' = [objects EXCEPT
                        !.heap = made.heap,
                        !.calls = Append(@, [op |-> "phase.run", returned |-> TRUE,
                                             value |-> made.value,
                                             received |-> made.heap[call.results.value].entries])]
                 /\ call' = [call EXCEPT !.result = Some(made.value)]
                 /\ pc' = "results.add"
                 /\ UNCHANGED result
       \/ /\ objects' = [objects EXCEPT
                 !.calls = Append(@, [op |-> "phase.run", returned |-> FALSE, value |-> 0,
                                      received |-> objects.heap[call.results.value].entries])]
          /\ result' = Raised("phase.run")
          /\ pc' = "done"
          /\ UNCHANGED call
    /\ UNCHANGED <<convolver_vars, image, tracer, fit, pix_pre_fit, pix_fit, model_image>>

\* results.add(self.phase.phase_name, result): line 88
ResultsAdd ==
    /\ pc = "results.add"
    /\ objects' = [objects EXCEPT !.heap =
          results_add(@, call.results.value, @[objects.hyper.phase].phase_name,
                      call.result.value)]
    /\ pc' = "run_hyper"
    /\ UNCHANGED <<convolver_vars, call, image, tracer, fit, pix_pre_fit, pix_fit,
                   model_image, result>>

\* hyper_result = self.run_hyper(data=data, results=results, **kwargs): line 89
RunHyper ==
    /\ pc = "run_hyper"
    /\ \/ \E figure_of_merit \in 1..MaxValue :
             LET made == Allocated(objects.heap, ResultObject(figure_of_merit))
             IN  /\ objects' = [objects EXCEPT
                        !.heap = made.heap,
                        !.calls = Append(@, [op |-> "run_hyper", returned |-> TRUE,
                                             value |-> made.value,
                                             received |-> made.heap[call.results.value].entries])]
                 /\ call' = [call EXCEPT !.hyper_result = Some(made.value)]
                 /\ pc' = "setattr"
                 /\ UNCHANGED result
       \/ /\ objects' = [objects EXCEPT
                 !.calls = Append(@, [op |-> "run_hyper", returned |-> FALSE, value |-> 0,
                                      received |-> objects.heap[call.results.value].entries])]
          /\ result' = Raised("run_hyper")
          /\ pc' = "done"
          /\ UNCHANGED call
    /\ UNCHANGED <<convolver_vars, image, tracer, fit, pix_pre_fit, pix_fit, model_image>>

\* setattr(result, self.hyper_name, hyper_result); return result: lines 90, 91
SetHyperResult ==
    /\ pc = "setattr"
    /\ objects' = [objects EXCEPT !.heap =
          setattr(@, call.result.value, objects.hyper.hyper_name, call.hyper_result.value)]
    /\ result' = Returned(call.result.value)
    /\ pc' = "done"
    /\ UNCHANGED <<convolver_vars, call, image, tracer, fit, pix_pre_fit, pix_fit, model_image>>

HyperInit ==
    /\ mask = default_mask_function(ImageSide)
    /\ psf = NoBlurKernel
    /\ image_frame_indexes = make_image_frame_indexes(mask)
    /\ image_frame_psfs = make_image_frame_psfs(mask, psf)
    /\ image_frame_lengths = make_image_frame_lengths(mask)
    /\ call = NoCall
    /\ objects \in HyperObjects
    /\ NoFit

HyperNext ==
    \/ MakeHyperPhase
    \/ HyperPhaseRun
    \/ PhaseRun
    \/ ResultsAdd
    \/ RunHyper
    \/ SetHyperResult

SpecHyper == HyperInit /\ [][HyperNext]_vars

(***************************************************************************)
(* C17: the order of HyperPhase.run                                         *)
(***************************************************************************)

\* the calls run has made to the wrapped phase and to run_hyper
CallsOf(op) == {i \in DOMAIN objects.calls : objects.calls[i].op = op}

\* results.from_phase(name): the result added last under the name
FromPhase(entries, name) ==
    LET named == {i \in DOMAIN entries : entries[i][1] = name}
    IN  IF named = {} THEN None
        ELSE Some(entries[CHOOSE i \in named : \A j \in named : j <= i][2])

\* the name of the wrapped phase
WrappedPhaseName == objects.heap[objects.hyper.phase].phase_name

\* C17: run_hyper is called only after phase.run returned, with a results
\* collection that holds the phase's result under phase.phase_name; run returns
\* that result object, the hyper result being its attribute hyper_name; and
\* when phase.run raised, run_hyper is not called and run raises
C17_NormalPhaseThenHyperPhase ==
    objects.made =>
        /\ \A i \in CallsOf("run_hyper") :
              \E j \in CallsOf("phase.run") :
                 /\ j < i
                 /\ objects.calls[j].returned
                 /\ FromPhase(objects.calls[i].received, WrappedPhaseName)
                        = Some(objects.calls[j].value)
        /\ (pc = "done" /\ result.kind = "returned") =>
              \E j \in CallsOf("phase.run"), i \in CallsOf("run_hyper") :
                 /\ result.value = objects.calls[j].value
                 /\ objects.heap[result.value].attributes[objects.hyper.hyper_name]
                        = objects.calls[i].value
        /\ (\E j \in CallsOf("phase.run") : ~objects.calls[j].returned) =>
              /\ CallsOf("run_hyper") = {}
              /\ pc = "done" /\ result.kind = "raised"

\* a run that returned, made with the results of an earlier phase that has the
\* name of the wrapped phase
C17_Witness ==
    /\ objects.made /\ pc = "done" /\ result.kind = "returned"
    /\ call.arg[2].given
    /\ FromPhase(objects.heap[objects.caller_results].entries, WrappedPhaseName).given

\* a run whose wrapped phase raised
C17_WitnessRaised ==
    /\ objects.made /\ pc = "done" /\ result.kind = "raised"
    /\ CallsOf("run_hyper") = {}

(***************************************************************************)
(* C18: make_hyper_phase works on a copy                                    *)
(***************************************************************************)

\* a phase with the objects it holds: what its attributes show
PhaseWithItsObjects(heap, phase) ==
    [phase |-> heap[phase],
     phase_folders |-> heap[heap[phase].phase_folders].items,
     optimizer |-> heap[heap[phase].optimizer]]

\* the wrapped phase, as its attributes show it
WrappedPhase == PhaseWithItsObjects(objects.heap, objects.hyper.phase)

C18_Step ==
    objects.made =>
        PhaseWithItsObjects(objects'.heap, objects'.hyper.phase) = WrappedPhase

C18_State ==
    objects.made =>
        \A k \in DOMAIN objects.hyper_phases :
            LET copy == PhaseWithItsObjects(objects.heap, objects.hyper_phases[k])
            IN  /\ objects.hyper_phases[k] # objects.hyper.phase
                /\ copy.phase.phase_folders # WrappedPhase.phase.phase_folders
                /\ copy.phase.optimizer # WrappedPhase.phase.optimizer
                /\ copy.phase.phase_name = WrappedPhase.phase.phase_name
                /\ copy.phase_folders
                      = WrappedPhase.phase_folders \o <<WrappedPhase.phase.phase_name>>
                /\ copy.phase.phase_tag = ""
                /\ copy.optimizer.phase_tag = ""
                /\ copy.optimizer.name_extension
                      = objects.hyper.hyper_name \o "_" \o WrappedPhase.phase.phase_tag
                /\ copy.phase.pass_priors = "HyperPhase.pass_priors"

\* C18: every phase make_hyper_phase returned is a new object whose
\* phase_folders is the wrapped phase's with phase_name appended, whose
\* phase_tag and optimizer's phase_tag are '', whose optimizer carries the
\* extension hyper_name + '_' + the wrapped phase's phase_tag and whose
\* pass_priors is the hyper phase's; and no step changes the wrapped phase's
\* phase_folders, phase_tag, optimizer or pass_priors
C18_HyperPhaseIsACopy == [][C18_Step]_vars /\ []C18_State

\* make_hyper_phase was called several times on a tagged phase in a folder
C18_Witness ==
    /\ objects.made
    /\ Len(objects.hyper_phases) = MaxCalls
    /\ WrappedPhase.phase.phase_tag # ""
    /\ WrappedPhase.phase_folders # <<>>
    /\ WrappedPhase.phase.preload_pixelization_grid.given

(***************************************************************************)
(* The galaxy-fit phase (phase.py, GalaxyFitPhase): make_analysis and run.  *)
(* The calls run makes to the methods of the phase are kept in a log.       *)
(***************************************************************************)

\* GalaxyFitPhase.__init__
GalaxyFitPhase(phase_name, use_intensities, use_convergence, use_potential, use_deflections, mask_function) ==
    [phase_name |-> phase_name,
     use_intensities |-> use_intensities,
     use_convergence |-> use_convergence,
     use_potential |-> use_potential,
     use_deflections |-> use_deflections,
     sub_grid_size |-> 2,
     interp_pixel_scale |-> None,
     mask_function |-> mask_function,
     cosmology |-> "Planck15"]

\* gd.GalaxyFitData: the data of one quantity of a galaxy within a mask
GalaxyFitData(galaxy_data, fit_mask, self, use_deflections_y, use_deflections_x) ==
    [image |-> galaxy_data.image,
     noise_map |-> galaxy_data.noise_map,
     mask |-> fit_mask,
     sub_grid_size |-> self.sub_grid_size,
     use_intensities |-> self.use_intensities,
     use_convergence |-> self.use_convergence,
     use_potential |-> self.use_potential,
     use_deflections_y |-> use_deflections_y,
     use_deflections_x |-> use_deflections_x]

\* what make_analysis returns when neither branch is taken: it has no return
\* statement there, and the call gives None
implicit_return(self, galaxy_data, results, fit_mask) == None

\* make_analysis: what it returns, and the calls it makes to methods of the phase
make_analysis(self, galaxy_data, results, mask_arg, configuration) ==
    LET fit_mask == setup_phase_mask(ImageSide, mask_arg, self.mask_function, None).value
    IN  IF self.use_intensities \/ self.use_convergence \/ self.use_potential
        THEN [value |-> Some(AnalysisSingle(
                            GalaxyFitData(galaxy_data[1], fit_mask, self,
                                          self.use_deflections, self.use_deflections),
                            self.cosmology, results, configuration)),
              calls |-> <<>>]
        ELSE IF self.use_deflections
        THEN [value |-> Some(AnalysisDeflections(
                            GalaxyFitData(galaxy_data[1], fit_mask, self,
                                          self.use_deflections, FALSE),
                            GalaxyFitData(galaxy_data[2], fit_mask, self,
                                          FALSE, self.use_deflections),
                            self.cosmology, results, configuration)),
              calls |-> <<>>]
        ELSE [value |-> implicit_return(self, galaxy_data, results, fit_mask),
              calls |-> <<>>]

\* the phases: every combination of the four flags
GalaxyFitPhases ==
    {GalaxyFitPhase("galaxy_fit", i, c, p, d, f) :
        i \in BOOLEAN, c \in BOOLEAN, p \in BOOLEAN, d \in BOOLEAN,
        f \in {None, Some(1)}}

\* the data handed to a phase: one data set, or the y and x deflections
GalaxyDataLists ==
    {<<y, [image |-> [i \in 0..1 |-> 1], noise_map |-> [i \in 0..1 |-> 1]]>> :
        y \in {g \in GalaxyDatas : g.noise_map = [i \in 0..1 |-> 1]}}

\* the configuration of the plots in these runs
RunConfiguration ==
    [plot_galaxy_fit_as_subplot |-> TRUE,
     plot_ray_tracing_all_at_end_png |-> FALSE,
     plot_ray_tracing_all_at_end_fits |-> FALSE]

\* one entry of the log: the method called and the analysis it was given
Called(op, analysis) == [op |-> op, analysis |-> analysis]

\* the frame of run and of a direct call of make_analysis
PhaseFrame(op, galaxy_data, results, mask_arg) ==
    [op |-> op, arg |-> <<galaxy_data, results, mask_arg>>, result |-> None,
     analysis |-> None]

\* make_analysis called by itself
MakeAnalysis ==
    /\ objects.made /\ pc = "idle"
    /\ \E galaxy_data \in GalaxyDataLists, mask_arg \in {None, Some(FitMask(2))} :
          LET made == make_analysis(objects.phase, galaxy_data, None, mask_arg,
                                    RunConfiguration)
          IN  /\ call' = [PhaseFrame("make_analysis", galaxy_data, None, mask_arg)
                             EXCEPT !.analysis = made.value]
              /\ objects' = [objects EXCEPT !.calls =
                                @ \o <<Called("make_analysis", None)>> \o made.calls]
              /\ result' = Returned(made.value)
    /\ pc' = "done"
    /\ UNCHANGED <<convolver_vars, image, tracer, fit, pix_pre_fit, pix_fit, model_image>>

\* run is called; analysis = self.make_analysis(...): line 306
GalaxyFitPhaseRun ==
    /\ objects.made /\ pc = "idle"
    /\ \E galaxy_data \in GalaxyDataLists, mask_arg \in {None, Some(FitMask(2))} :
          LET made == make_analysis(objects.phase, galaxy_data, None, mask_arg,
                                    RunConfiguration)
          IN  /\ call' = [PhaseFrame("run", galaxy_data, None, mask_arg)
                             EXCEPT !.analysis = made.value]
              /\ objects' = [objects EXCEPT !.calls =
                                @ \o <<Called("make_analysis", None)>> \o made.calls]
    /\ pc' = "pass_priors"
    /\ UNCHANGED <<convolver_vars, image, tracer, fit, pix_pre_fit, pix_fit, model_image,
                   result>>

\* self.pass_priors(results): line 308
PassPriors ==
    /\ pc = "pass_priors"
    /\ objects' = [objects EXCEPT !.calls = Append(@, Called("pass_priors", None))]
    /\ pc' = "assert_and_save_pickle"
    /\ UNCHANGED <<convolver_vars, call, image, tracer, fit, pix_pre_fit, pix_fit,
                   model_image, result>>

\* self.assert_and_save_pickle(): line 309; it raises when the pickled phase differs
AssertAndSavePickle ==
    /\ pc = "assert_and_save_pickle"
    /\ objects' = [objects EXCEPT !.calls = Append(@, Called("assert_and_save_pickle", None))]
    /\ \/ pc' = "run_analysis" /\ UNCHANGED result
       \/ pc' = "done" /\ result' = Raised("assert_and_save_pickle")
    /\ UNCHANGED <<convolver_vars, call, image, tracer, fit, pix_pre_fit, pix_fit, model_image>>

\* result = self.run_analysis(analysis): line 311; the optimizer calls
\* analysis.fit, which None does not have
RunAnalysis ==
    /\ pc = "run_analysis"
    /\ objects' = [objects EXCEPT !.calls = Append(@, Called("run_analysis", call.analysis))]
    /\ IF ~call.analysis.given
       THEN /\ result' = Raised("AttributeError")
            /\ pc' = "done"
            /\ UNCHANGED call
       ELSE /\ \E instance \in Instances :
                  LET analysis == call.analysis.value
                      figure_of_merit ==
                          IF analysis.class = "AnalysisSingle"
                          THEN AnalysisSingle_fit(analysis, instance).value
                          ELSE AnalysisDeflections_fit(analysis, instance).value
                  IN  call' = [call EXCEPT !.result =
                                  Some([constant |-> instance,
                                        figure_of_merit |-> figure_of_merit])]
            /\ pc' = "make_result"
            /\ UNCHANGED result
    /\ UNCHANGED <<convolver_vars, image, tracer, fit, pix_pre_fit, pix_fit, model_image>>

\* the mutant of make_result: the Result is made without the analysis
make_result_without_analysis(optimizer_result, analysis) ==
    [constant |-> optimizer_result.constant,
     figure_of_merit |-> optimizer_result.figure_of_merit,
     analysis |-> None]

\* AbstractPhase.make_result(result, analysis): the Result of the phase
make_result(optimizer_result, analysis) ==
    [constant |-> optimizer_result.constant,
     figure_of_merit |-> optimizer_result.figure_of_merit,
     analysis |-> analysis]

\* return self.make_result(result, analysis): line 313
MakeResult ==
    /\ pc = "make_result"
    /\ objects' = [objects EXCEPT !.calls = Append(@, Called("make_result", call.analysis))]
    /\ result' = Returned(make_result(call.result.value, call.analysis))
    /\ pc' = "done"
    /\ UNCHANGED <<convolver_vars, call, image, tracer, fit, pix_pre_fit, pix_fit, model_image>>

GalaxyFitInit ==
    /\ mask = default_mask_function(ImageSide)
    /\ psf = NoBlurKernel
    /\ image_frame_indexes = make_image_frame_indexes(mask)
    /\ image_frame_psfs = make_image_frame_psfs(mask, psf)
    /\ image_frame_lengths = make_image_frame_lengths(mask)
    /\ call = NoCall
    /\ \E phase \in GalaxyFitPhases :
          objects = [made |-> TRUE, phase |-> phase, calls |-> <<>>]
    /\ NoFit

GalaxyFitNext ==
    \/ MakeAnalysis
    \/ GalaxyFitPhaseRun
    \/ PassPriors
    \/ AssertAndSavePickle
    \/ RunAnalysis
    \/ MakeResult

SpecGalaxyFit == GalaxyFitInit /\ [][GalaxyFitNext]_vars

(***************************************************************************)
(* C19: make_analysis and the passing of priors                             *)
(***************************************************************************)

\* the entries of the log made by calls of the method
LogOf(op) == {i \in DOMAIN objects.calls : objects.calls[i].op = op}

\* make_analysis has returned: called by itself, or as the first step of run
MakeAnalysisReturned == objects.made /\ LogOf("make_analysis") # {}

\* C19: once make_analysis has returned, pass_priors has been called
C19_MakeAnalysisPassesPriors ==
    MakeAnalysisReturned => LogOf("pass_priors") # {}

\* what the code does: make_analysis calls no method of the phase, and in run
\* pass_priors is called after make_analysis has returned
C19_RunPassesPriorsAfterMakeAnalysis ==
    MakeAnalysisReturned =>
        /\ call.op = "make_analysis" => LogOf("pass_priors") = {}
        /\ \A i \in LogOf("pass_priors") : \E j \in LogOf("make_analysis") : j < i

\* make_analysis was called by itself and returned an analysis
C19_Witness ==
    /\ MakeAnalysisReturned
    /\ call.op = "make_analysis" /\ pc = "done"
    /\ result.kind = "returned" /\ result.value.given

(***************************************************************************)
(* C20: what make_analysis returns for each combination of the flags        *)
(***************************************************************************)

\* the class of analysis the claim names for the flags of the phase
ClassForFlags(phase) ==
    IF phase.use_intensities \/ phase.use_convergence \/ phase.use_potential
    THEN "AnalysisSingle"
    ELSE "AnalysisDeflections"

\* C20: for every combination of the flags make_analysis returns an analysis,
\* of the class the flags select, and run_analysis and make_result are always
\* given an analysis
C20_AlwaysAnAnalysis ==
    MakeAnalysisReturned =>
        /\ call.analysis.given
        /\ call.analysis.value.class = ClassForFlags(objects.phase)
        /\ \A i \in LogOf("run_analysis") \cup LogOf("make_result") :
              objects.calls[i].analysis.given

\* what the code does: an analysis of the class the flags select when a flag
\* is set, None when none is set, and then run raises in run_analysis
C20_NoneWhenNoFlagIsSet ==
    MakeAnalysisReturned =>
        LET phase == objects.phase
            any == \/ phase.use_intensities \/ phase.use_convergence
                   \/ phase.use_potential \/ phase.use_deflections
        IN  /\ call.analysis.given <=> any
            /\ any => call.analysis.value.class = ClassForFlags(phase)
            /\ (~any /\ LogOf("run_analysis") # {}) =>
                  /\ result.kind = "raised"
                  /\ LogOf("make_result") = {}

\* run of a phase with no flag set has reached run_analysis
C20_Witness ==
    /\ MakeAnalysisReturned
    /\ call.op = "run"
    /\ ~objects.phase.use_intensities /\ ~objects.phase.use_convergence
    /\ ~objects.phase.use_potential /\ ~objects.phase.use_deflections
    /\ LogOf("run_analysis") # {}

(***************************************************************************)
(* The hyper-galaxy phase (phase.py, HyperGalaxyPhase): run makes one fit   *)
(* for each galaxy of the last result.                                       *)
(***************************************************************************)

\* a galaxy of a model instance: its name, its image in the best fit, and
\* the hyper galaxy set on it
NamedGalaxy(name, galaxy_image_2d) ==
    [name |-> name, galaxy_image_2d |-> galaxy_image_2d, hyper_galaxy |-> None]

\* the constant and the variable of a result: the galaxies by name, in the
\* order name_instance_tuples_for_class gives them
ModelObject(class, galaxies) == [class |-> class, galaxies |-> galaxies]

\* the result of the last phase: its constant, its variable, the model image
LastResult(constant, variable, unmasked_model_image) ==
    [class |-> "Result", constant |-> constant, variable |-> variable,
     unmasked_model_image |-> unmasked_model_image]

\* the mutant of name_galaxy_tuples: the galaxies in the opposite order
name_galaxy_tuples_reversed(heap, last) ==
    LET galaxies == heap[heap[last].constant].galaxies
    IN  [k \in DOMAIN galaxies |->
            <<galaxies[Len(galaxies) + 1 - k].name, Len(galaxies) + 1 - k>>]

\* Result.name_galaxy_tuples: the names with the galaxies of the constant,
\* a galaxy being given by its place in the constant
name_galaxy_tuples(heap, last) ==
    LET galaxies == heap[heap[last].constant].galaxies
    IN  [k \in DOMAIN galaxies |-> <<galaxies[k].name, k>>]

\* Result.image_2d_for_galaxy
image_2d_for_galaxy(heap, last, galaxy) ==
    heap[heap[last].constant].galaxies[galaxy].galaxy_image_2d

\* the place of the galaxy with the name: getattr(model, name)
Named(galaxies, name) == CHOOSE k \in DOMAIN galaxies : galaxies[k].name = name

\* getattr(model, name).hyper_galaxy = hyper_galaxy
set_hyper_galaxy(heap, model, name, hyper_galaxy) ==
    [heap EXCEPT ![model].galaxies[Named(heap[model].galaxies, name)].hyper_galaxy =
                    Some(hyper_galaxy)]

\* HyperGalaxyPhase.Analysis.__init__
HyperGalaxyAnalysis(lens_data, model_image_2d, galaxy_image_2d) ==
    [lens_data |-> lens_data,
     hyper_model_image_1d |-> model_image_2d,
     hyper_galaxy_image_1d |-> galaxy_image_2d]

\* one pass of the loop of run, the fit having found fitted: lines 667 to 673
fit_one_galaxy(heap, frame, fitted) ==
    LET tuple == frame.tuples[frame.index]
        optimizer == Allocated(heap, [class |-> "Optimizer", name_extension |-> tuple[1],
                                      variable_hyper_galaxy |-> "HyperGalaxy",
                                      constant_hyper_galaxy |-> fitted])
        analysis == HyperGalaxyAnalysis(frame.arg[1], frame.model_image_2d,
                                        image_2d_for_galaxy(heap, frame.last, tuple[2]))
        results_copy == optimizer.heap[frame.results_copy]
        on_variable == set_hyper_galaxy(optimizer.heap, results_copy.variable, tuple[1],
                                        optimizer.heap[optimizer.value].variable_hyper_galaxy)
    IN  [heap |-> set_hyper_galaxy(on_variable, results_copy.constant, tuple[1],
                                   on_variable[optimizer.value].constant_hyper_galaxy),
         calls |-> <<[op |-> "copy_with_name_extension", name |-> tuple[1],
                      optimizer |-> optimizer.value, analysis |-> None],
                     [op |-> "fit", name |-> tuple[1],
                      optimizer |-> optimizer.value, analysis |-> Some(analysis)]>>]

\* the galaxies of the last phase: none, one or two
GalaxyLists ==
    {<<>>, <<NamedGalaxy("lens", 1)>>,
     <<NamedGalaxy("lens", 1), NamedGalaxy("source", 2)>>,
     <<NamedGalaxy("source", 2), NamedGalaxy("lens", 1)>>,
     <<NamedGalaxy("lens", 1), NamedGalaxy("subhalo", 0), NamedGalaxy("source", 2)>>}

\* the last result and the results collection that holds it
HyperGalaxyObjects ==
    {[made |-> TRUE,
      heap |-> <<ModelObject("ModelInstance", galaxies),
                 ModelObject("ModelMapper", galaxies),
                 LastResult(1, 2, unmasked_model_image),
                 ResultsCollection(<< <<"phase", 3>> >>)>>,
      results |-> 4,
      calls |-> <<>>] :
        galaxies \in GalaxyLists, unmasked_model_image \in 1..MaxValue}

\* run is called: lines 660 to 663
HyperGalaxyPhaseRun ==
    /\ objects.made /\ pc = "idle"
    /\ \E data \in {"imaging", "interferometer"} :
          LET entries == objects.heap[objects.results].entries
              last == entries[Len(entries)][2]
              results_copy == Allocated(objects.heap, objects.heap[last])
          IN  /\ objects' = [objects EXCEPT !.heap = results_copy.heap]
              /\ call' = [op |-> "HyperGalaxyPhase.run", arg |-> <<data, objects.results>>,
                          result |-> None, last |-> last,
                          model_image_2d |-> objects.heap[last].unmasked_model_image,
                          results_copy |-> results_copy.value,
                          tuples |-> name_galaxy_tuples(objects.heap, last),
                          index |-> 1]
    /\ pc' = "loop"
    /\ UNCHANGED <<convolver_vars, image, tracer, fit, pix_pre_fit, pix_fit, model_image, result>>

\* one pass of the loop: lines 665 to 673; the fit returns or raises
HyperGalaxyFit ==
    /\ pc = "loop" /\ call.index <= Len(call.tuples)
    /\ \/ \E fitted \in 1..MaxValue :
             LET pass == fit_one_galaxy(objects.heap, call, fitted)
             IN  /\ objects' = [objects EXCEPT !.heap = pass.heap, !.calls = @ \o pass.calls]
                 /\ call' = [call EXCEPT !.index = @ + 1]
                 /\ UNCHANGED <<pc, result>>
       \/ /\ result' = Raised("optimizer.fit")
          /\ pc' = "done"
          /\ UNCHANGED <<objects, call>>
    /\ UNCHANGED <<convolver_vars, image, tracer, fit, pix_pre_fit, pix_fit, model_image>>

\* return results_copy: line 675
HyperGalaxyReturn ==
    /\ pc = "loop" /\ call.index > Len(call.tuples)
    /\ result' = Returned(call.results_copy)
    /\ pc' = "done"
    /\ UNCHANGED <<objects, convolver_vars, call, image, tracer, fit, pix_pre_fit, pix_fit,
                   model_image>>

HyperGalaxyInit ==
    /\ mask = default_mask_function(ImageSide)
    /\ psf = NoBlurKernel
    /\ image_frame_indexes = make_image_frame_indexes(mask)
    /\ image_frame_psfs = make_image_frame_psfs(mask, psf)
    /\ image_frame_lengths = make_image_frame_lengths(mask)
    /\ call = NoCall
    /\ objects \in HyperGalaxyObjects
    /\ NoFit

HyperGalaxyNext ==
    \/ HyperGalaxyPhaseRun
    \/ HyperGalaxyFit
    \/ HyperGalaxyReturn

SpecHyperGalaxy == HyperGalaxyInit /\ [][HyperGalaxyNext]_vars

(***************************************************************************)
(* C21: one fit for each galaxy of the last result                          *)
(***************************************************************************)

\* the galaxies of the constant of the last result, in their order
LastGalaxies == objects.heap[objects.heap[call.last].constant].galaxies

\* the calls of the log with the operation, in the order they were made
LogOfOp(op) == SelectSeq(objects.calls, LAMBDA c : c.op = op)

\* C21: when run returns, the optimizer copies made are one for each galaxy of
\* the last result, named by the galaxies' names in the order of
\* name_galaxy_tuples; each copy was fitted once, with the image of its galaxy
\* and the unmasked model image of the last result; and the galaxy of every
\* such name has a hyper_galaxy on the variable and on the constant of the
\* result returned
C21_OneFitForEachGalaxy ==
    (objects.made /\ pc = "done" /\ result.kind = "returned") =>
        LET copies == LogOfOp("copy_with_name_extension")
            fits == LogOfOp("fit")
            returned == objects.heap[result.value]
        IN  /\ Len(copies) = Len(LastGalaxies) /\ Len(fits) = Len(LastGalaxies)
            /\ \A k \in DOMAIN LastGalaxies :
                  /\ copies[k].name = LastGalaxies[k].name
                  /\ fits[k].optimizer = copies[k].optimizer
                  /\ \A j \in DOMAIN copies : j # k => copies[j].optimizer # copies[k].optimizer
                  /\ fits[k].analysis.value.hyper_galaxy_image_1d
                        = LastGalaxies[k].galaxy_image_2d
                  /\ fits[k].analysis.value.hyper_model_image_1d
                        = objects.heap[call.last].unmasked_model_image
                  /\ fits[k].analysis.value.lens_data = call.arg[1]
                  /\ \E v \in DOMAIN objects.heap[returned.variable].galaxies :
                        /\ objects.heap[returned.variable].galaxies[v].name = LastGalaxies[k].name
                        /\ objects.heap[returned.variable].galaxies[v].hyper_galaxy.given
                  /\ \E c \in DOMAIN objects.heap[returned.constant].galaxies :
                        /\ objects.heap[returned.constant].galaxies[c].name = LastGalaxies[k].name
                        /\ objects.heap[returned.constant].galaxies[c].hyper_galaxy.given

\* run returned after the fits of two galaxies
C21_Witness ==
    /\ objects.made /\ pc = "done" /\ result.kind = "returned"
    /\ call.op = "HyperGalaxyPhase.run"
    /\ Len(LastGalaxies) = 2
    /\ Len(LogOfOp("fit")) = 2

(***************************************************************************)
(* The grids of a mask (grids.py and imaging_util.py, seen through          *)
(* test_grids.py): the image grid, the sub-grid, the blurring grid and the  *)
(* padded grid mappers.  A coordinate is a pair of rationals (first the     *)
(* axis of the rows, then the axis of the columns), a grid an array of      *)
(* coordinates.                                                             *)
(***************************************************************************)

\* the largest sub_grid_size of the sub-grids built
MaxSubGridSize == 2

\* the shape of a 2D array
Shape(m) == <<Cardinality({c[1] : c \in DOMAIN m}), Cardinality({c[2] : c \in DOMAIN m})>>

\* the cells of a shape, and the cell at a place of the row-major order
ShapeCells(shape) == (0..(shape[1] - 1)) \X (0..(shape[2] - 1))
RowMajorCell(shape, t) == <<t \div shape[2], t % shape[2]>>

\* the coordinate of pixel i of n along one axis: the pixels are centred on 0
pixel_to_coordinate(i, n, pixel_scale) ==
    RMul(RInt(pixel_scale), RSub(RInt(i), RNorm(n - 1, 2)))

\* the coordinate of sub-pixel x1 of a pixel at centre along one axis: the
\* sub-pixels divide the pixel in sub_grid_size + 1 intervals
sub_pixel_to_coordinate(x1, centre, pixel_scale, sub_grid_size) ==
    RAdd(RSub(centre, RNorm(pixel_scale, 2)),
         RMul(RInt(x1 + 1), RNorm(pixel_scale, sub_grid_size + 1)))

\* the mutant of sub_pixel_at: the sub-pixels of a parent column by column
sub_pixel_at_column_major(sub_grid_size, j) == <<j % sub_grid_size, j \div sub_grid_size>>

\* the sub-pixel reached at pass j of the loops over x1 and y1
sub_pixel_at(sub_grid_size, j) == <<j \div sub_grid_size, j % sub_grid_size>>

\* the sub-pixels of one unmasked pixel, in the order of the loops, with the
\* image pixel they belong to
sub_pixels_of_pixel(m, cell, pixel_scale, sub_grid_size, image_pixel_count) ==
    [j \in 1..(sub_grid_size * sub_grid_size) |->
        LET sub == sub_pixel_at(sub_grid_size, j - 1)
        IN  [coordinate |->
                <<sub_pixel_to_coordinate(
                      sub[1], pixel_to_coordinate(cell[1], Shape(m)[1], pixel_scale),
                      pixel_scale, sub_grid_size),
                  sub_pixel_to_coordinate(
                      sub[2], pixel_to_coordinate(cell[2], Shape(m)[2], pixel_scale),
                      pixel_scale, sub_grid_size)>>,
             image |-> image_pixel_count]]

\* the loops over the pixels of the mask, from place t of the row-major order
RECURSIVE sub_grid_loop(_, _, _, _, _, _)
sub_grid_loop(m, pixel_scale, sub_grid_size, t, image_pixel_count, sub_pixels) ==
    IF t = Shape(m)[1] * Shape(m)[2] \/ Len(sub_pixels) < 0
    THEN sub_pixels
    ELSE IF m[RowMajorCell(Shape(m), t)]
    THEN sub_grid_loop(m, pixel_scale, sub_grid_size, t + 1, image_pixel_count, sub_pixels)
    ELSE sub_grid_loop(m, pixel_scale, sub_grid_size, t + 1, image_pixel_count + 1,
                       sub_pixels \o sub_pixels_of_pixel(m, RowMajorCell(Shape(m), t),
                                                         pixel_scale, sub_grid_size,
                                                         image_pixel_count))

\* SubGrid.grid_from_mask_and_sub_grid_size
grid_from_mask_and_sub_grid_size(m, pixel_scale, sub_grid_size) ==
    LET sub_pixels == sub_grid_loop(m, pixel_scale, sub_grid_size, 0, 0, <<>>)
    IN  [grid |-> [k \in 0..(Len(sub_pixels) - 1) |-> sub_pixels[k + 1].coordinate],
         sub_to_image |-> [k \in 0..(Len(sub_pixels) - 1) |-> sub_pixels[k + 1].image],
         sub_grid_size |-> sub_grid_size,
         sub_grid_fraction |-> RNorm(1, sub_grid_size * sub_grid_size)]

\* the masks the grids are built for: the masks of the image of the convolver
BuildSubGrid ==
    /\ \E pixel_scale \in 1..2, sub_grid_size \in 1..MaxSubGridSize :
          call' = [op |-> "grid_from_mask_and_sub_grid_size",
                   arg |-> <<pixel_scale, sub_grid_size>>,
                   result |-> grid_from_mask_and_sub_grid_size(mask, pixel_scale, sub_grid_size)]
    /\ UNCHANGED <<objects, convolver_vars, fit_vars>>

GridsInit ==
    /\ mask \in Masks
    /\ psf = NoBlurKernel
    /\ image_frame_indexes = make_image_frame_indexes(mask)
    /\ image_frame_psfs = make_image_frame_psfs(mask, psf)
    /\ image_frame_lengths = make_image_frame_lengths(mask)
    /\ call = NoCall
    /\ objects = NoObjects
    /\ NoFit

GridsNext ==
    \/ BuildSubGrid

SpecGrids == GridsInit /\ [][GridsNext]_vars

(***************************************************************************)
(* C22: the order of the sub-grid                                           *)
(***************************************************************************)

\* a sub-grid was built
SubGridBuilt == call.op = "grid_from_mask_and_sub_grid_size"

\* the sub-pixel at place j of a row-major parent, restated
RowMajorSubCoordinate(cell, j, pixel_scale, s) ==
    LET along(i, n, x1) ==
            RAdd(RMul(RInt(pixel_scale), RSub(RInt(i), RNorm(n - 1, 2))),
                 RMul(RInt(pixel_scale), RSub(RNorm(x1 + 1, s + 1), RNorm(1, 2))))
    IN  <<along(cell[1], Shape(mask)[1], j \div s), along(cell[2], Shape(mask)[2], j % s)>>

\* the grids that test_grids.py expects of its fixtures
SubGridsOfTheTests ==
    /\ (mask = CrossMask /\ call.arg = <<1, 1>>) =>
          call.result.grid = [k \in 0..4 |->
              <<RInt(<<-1, 0, 0, 0, 1>>[k + 1]), RInt(<<0, -1, 0, 1, 0>>[k + 1])>>]
    /\ (Unmasked(mask) = {<<Half, Half>>} /\ call.arg = <<1, 2>>) =>
          call.result.grid = [k \in 0..3 |->
              <<RNorm(<<-1, -1, 1, 1>>[k + 1], 6), RNorm(<<-1, 1, -1, 1>>[k + 1], 6)>>]

C22_State ==
    SubGridBuilt =>
        LET s == call.arg[2]
            sub == call.result
        IN  /\ Size(sub.grid) = s * s * pixels_in_mask(mask)
            /\ DOMAIN sub.sub_to_image = DOMAIN sub.grid
            /\ \A k \in DOMAIN sub.grid :
                  /\ sub.sub_to_image[k] = k \div (s * s)
                  /\ sub.grid[k] = RowMajorSubCoordinate(cell_of(mask, k \div (s * s)),
                                                         k % (s * s), call.arg[1], s)
            /\ RMul(sub.sub_grid_fraction, RInt(s * s)) = ROne
            /\ s = 1 => sub.sub_to_image = [k \in DOMAIN sub.grid |-> k]
            /\ SubGridsOfTheTests

C22_Step ==
    (SubGridBuilt /\ call'.op = call.op /\ call'.arg = call.arg) => call'.result = call.result

image_grid_masked_from_mask_and_pixel_scale(m, pixel_scale) ==
    LET unmasked == Unmasked(m)
        shape == Shape(m)
        index == [c \in unmasked |-> Cardinality({q \in unmasked : Before(q, c)})]
        coordinate(c) == <<pixel_to_coordinate(c[1], shape[1], pixel_scale),
                           pixel_to_coordinate(c[2], shape[2], pixel_scale)>>
    IN  [i \in 0..(Cardinality(unmasked) - 1) |->
            coordinate(CHOOSE c \in unmasked : index[c] = i)]

\* np.full(shape, False): the mask of a padded image
np_full_false(shape) == [c \in ShapeCells(shape) |-> FALSE]

\* the mutant of padded_shape: the PSF shape added whole
padded_shape_whole_psf(shape, psf_shape) ==
    <<shape[1] + psf_shape[1], shape[2] + psf_shape[2]>>

\* the shape of an image padded for a PSF
padded_shape(shape, psf_shape) ==
    <<shape[1] + psf_shape[1] - 1, shape[2] + psf_shape[2] - 1>>

\* ImageGridMapper.mapper_from_shapes_and_pixel_scale
mapper_from_shapes_and_pixel_scale(shape, psf_shape, pixel_scale) ==
    [grid |-> image_grid_masked_from_mask_and_pixel_scale(
                  np_full_false(padded_shape(shape, psf_shape)), pixel_scale),
     original_shape |-> shape,
     padded_shape |-> padded_shape(shape, psf_shape)]

\* SubGridMapper.mapper_from_mask_sub_grid_size_and_psf_shape
mapper_from_mask_sub_grid_size_and_psf_shape(m, pixel_scale, sub_grid_size, psf_shape) ==
    [grid |-> grid_from_mask_and_sub_grid_size(
                  np_full_false(padded_shape(Shape(m), psf_shape)), pixel_scale,
                  sub_grid_size).grid,
     original_shape |-> Shape(m),
     padded_shape |-> padded_shape(Shape(m), psf_shape)]

\* trim_padded_array_to_original_shape: the slice of the padded array between
\* half the padding and the padded size less half the padding, on both axes
trim_padded_array_to_original_shape(self, padded_array_2d) ==
    LET pad_size_0 == self.padded_shape[1] - self.original_shape[1]
        pad_size_1 == self.padded_shape[2] - self.original_shape[2]
        rows == self.padded_shape[1] - 2 * (pad_size_0 \div 2)
        columns == self.padded_shape[2] - 2 * (pad_size_1 \div 2)
    IN  [c \in ShapeCells(<<rows, columns>>) |->
            padded_array_2d[<<c[1] + pad_size_0 \div 2, c[2] + pad_size_1 \div 2>>]]

\* the shapes of the images and of the PSFs of the tests
MapperShapes == {<<2, 2>>, <<3, 1>>, <<1, 3>>, <<3, 3>>, <<4, 3>>, <<3, 4>>, <<2, 5>>}
PsfShapes == {<<1, 1>>, <<3, 3>>, <<5, 5>>, <<3, 5>>}

\* padded arrays: the pixels numbered from 1 in row-major order, or by column
PaddedArrays(shape) ==
    {[c \in ShapeCells(shape) |-> c[1] * shape[2] + c[2] + 1],
     [c \in ShapeCells(shape) |-> c[2] % (MaxValue + 1)]}

BuildImageMapper ==
    /\ call = NoCall
    /\ \E shape \in MapperShapes, psf_shape \in PsfShapes, pixel_scale \in 1..2 :
          call' = [op |-> "mapper_from_shapes_and_pixel_scale",
                   arg |-> <<shape, psf_shape, pixel_scale, 1>>,
                   result |-> mapper_from_shapes_and_pixel_scale(shape, psf_shape, pixel_scale)]
    /\ UNCHANGED <<objects, convolver_vars, fit_vars>>

BuildSubMapper ==
    /\ call = NoCall
    /\ \E shape \in MapperShapes, psf_shape \in PsfShapes,
          sub_grid_size \in 1..MaxSubGridSize :
          call' = [op |-> "mapper_from_mask_sub_grid_size_and_psf_shape",
                   arg |-> <<shape, psf_shape, 1, sub_grid_size>>,
                   result |-> mapper_from_mask_sub_grid_size_and_psf_shape(
                                  np_full_false(shape), 1, sub_grid_size, psf_shape)]
    /\ UNCHANGED <<objects, convolver_vars, fit_vars>>

TrimPaddedArray ==
    /\ call.op \in {"mapper_from_shapes_and_pixel_scale",
                    "mapper_from_mask_sub_grid_size_and_psf_shape"}
    /\ \E padded_array_2d \in PaddedArrays(call.result.padded_shape) :
          call' = [op |-> "trim_padded_array_to_original_shape",
                   arg |-> <<call.arg[1], call.arg[2], padded_array_2d>>,
                   result |-> trim_padded_array_to_original_shape(call.result, padded_array_2d)]
    /\ UNCHANGED <<objects, convolver_vars, fit_vars>>

MappersInit ==
    /\ mask = np_full_false(<<ImageSide, ImageSide>>)
    /\ psf = NoBlurKernel
    /\ image_frame_indexes = make_image_frame_indexes(mask)
    /\ image_frame_psfs = make_image_frame_psfs(mask, psf)
    /\ image_frame_lengths = make_image_frame_lengths(mask)
    /\ call = NoCall
    /\ objects = NoObjects
    /\ NoFit

MappersNext ==
    \/ BuildImageMapper
    \/ BuildSubMapper
    \/ TrimPaddedArray

SpecMappers == MappersInit /\ [][MappersNext]_vars

(***************************************************************************)
(* C23: the shapes of a padded mapper and the window that trimming keeps    *)
(***************************************************************************)

MapperBuilt ==
    call.op \in {"mapper_from_shapes_and_pixel_scale",
                 "mapper_from_mask_sub_grid_size_and_psf_shape"}

ArrayTrimmed == call.op = "trim_padded_array_to_original_shape"

\* the trimmed arrays that test_grids.py expects
TrimsOfTheTests ==
    /\ (call.arg[1] = <<2, 2>> /\ call.arg[2] = <<3, 3>> /\ call.arg[3][<<0, 0>>] = 1) =>
          call.result = [c \in ShapeCells(<<2, 2>>) |->
                            << <<6, 7>>, <<10, 11>> >>[c[1] + 1][c[2] + 1]]
    /\ (call.arg[1] = <<2, 5>> /\ call.arg[2] = <<3, 3>> /\ call.arg[3][<<0, 0>>] = 1) =>
          call.result = [c \in ShapeCells(<<2, 5>>) |->
                            << <<9, 10, 11, 12, 13>>, <<16, 17, 18, 19, 20>> >>[c[1] + 1][c[2] + 1]]

\* C23: a padded mapper for an image of shape (r, c) and a PSF of shape (p, q)
\* has original_shape (r, c), padded_shape (r + p - 1, c + q - 1) and
\* (r + p - 1) * (c + q - 1) coordinates, times sub_grid_size^2 for the sub-grid
\* mapper; and trimming a padded array gives the (r, c) window at its centre
C23_PaddedMapperShapes ==
    /\ MapperBuilt =>
          LET r == call.arg[1][1]
              c == call.arg[1][2]
              p == call.arg[2][1]
              q == call.arg[2][2]
              s == call.arg[4]
          IN  /\ call.result.original_shape = <<r, c>>
              /\ call.result.padded_shape = <<r + p - 1, c + q - 1>>
              /\ Size(call.result.grid) = (r + p - 1) * (c + q - 1) * s * s
    /\ ArrayTrimmed =>
          LET r == call.arg[1][1]
              c == call.arg[1][2]
              p == call.arg[2][1]
              q == call.arg[2][2]
          IN  /\ DOMAIN call.result = (0..(r - 1)) \X (0..(c - 1))
              /\ \A cell \in DOMAIN call.result :
                    call.result[cell]
                        = call.arg[3][<<cell[1] + (p - 1) \div 2, cell[2] + (q - 1) \div 2>>]
              /\ TrimsOfTheTests

\* a padded array of a 4x3 image and a 3x5 PSF was trimmed
C23_Witness ==
    /\ ArrayTrimmed
    /\ call.arg[1] = <<4, 3>> /\ call.arg[2] = <<3, 5>>
    /\ Shape(call.arg[3]) = <<6, 7>>
    /\ Shape(call.result) = <<4, 3>>

(***************************************************************************)
(* The blurring grid: the grid of the masked pixels that the PSF reaches    *)
(* from an unmasked pixel.                                                  *)
(***************************************************************************)

\* the offsets along an axis of a PSF of p pixels: range((-p + 1) // 2, (p + 1) // 2)
psf_offsets(p) == (-((p - 1) \div 2))..((p + 1) \div 2 - 1)

\* pixel c is reached by the PSF centred on pixel u
psf_reaches(c, u, psf_shape) ==
    /\ c[1] - u[1] \in psf_offsets(psf_shape[1])
    /\ c[2] - u[2] \in psf_offsets(psf_shape[2])

\* the mutant of mask_blurring_from_mask_and_psf_shape: the axes of the PSF exchanged
mask_blurring_with_psf_transposed(m, psf_shape) ==
    [c \in DOMAIN m |->
        ~(m[c] /\ \E u \in Unmasked(m) : psf_reaches(c, u, <<psf_shape[2], psf_shape[1]>>))]

\* imaging_util.mask_blurring_from_mask_and_psf_shape: False on the masked
\* pixels that the PSF reaches from an unmasked pixel
mask_blurring_from_mask_and_psf_shape(m, psf_shape) ==
    [c \in DOMAIN m |-> ~(m[c] /\ \E u \in Unmasked(m) : psf_reaches(c, u, psf_shape))]

\* ImageGrid.blurring_grid_from_mask_and_psf_shape
blurring_grid_from_mask_and_psf_shape(m, pixel_scale, psf_shape) ==
    CHOOSE grid \in {image_grid_masked_from_mask_and_pixel_scale(blurring_mask, pixel_scale) :
                         blurring_mask \in {mask_blurring_from_mask_and_psf_shape(m, psf_shape)}} :
        TRUE

\* the mask within a border of masked pixels, as an image is padded before masking
bordered(m, border) ==
    [c \in ShapeCells(<<Shape(m)[1] + 2 * border, Shape(m)[2] + 2 * border>>) |->
        IF /\ c[1] - border \in 0..(Shape(m)[1] - 1)
           /\ c[2] - border \in 0..(Shape(m)[2] - 1)
        THEN m[<<c[1] - border, c[2] - border>>]
        ELSE TRUE]

\* the PSF stays inside the array from every unmasked pixel
PsfFits(m, psf_shape) ==
    \A u \in Unmasked(m) :
        \A d1 \in psf_offsets(psf_shape[1]), d2 \in psf_offsets(psf_shape[2]) :
            <<u[1] + d1, u[2] + d2>> \in DOMAIN m

BuildBlurringGrid ==
    /\ call = NoCall
    /\ \E border \in 0..1, psf_shape \in PsfShapes, pixel_scale \in 1..2 :
          \E m \in {bordered(mask, border)} :
              /\ PsfFits(m, psf_shape)
              /\ call' = [op |-> "blurring_grid_from_mask_and_psf_shape",
                          arg |-> <<m, psf_shape, pixel_scale>>,
                          result |-> blurring_grid_from_mask_and_psf_shape(
                                         m, pixel_scale, psf_shape)]
    /\ UNCHANGED <<objects, convolver_vars, fit_vars>>

BlurringGridNext ==
    \/ BuildBlurringGrid

SpecBlurringGrid == GridsInit /\ [][BlurringGridNext]_vars

(***************************************************************************)
(* C24: the pixels of the blurring grid                                     *)
(***************************************************************************)

BlurringGridBuilt == call.op = "blurring_grid_from_mask_and_psf_shape"

\* the masked pixels within the half-extents of the PSF of an unmasked pixel
ReachedMaskedPixels(m, psf_shape) ==
    {c \in DOMAIN m :
        /\ m[c]
        /\ \E u \in Unmasked(m) :
              /\ Abs(c[1] - u[1]) <= (psf_shape[1] - 1) \div 2
              /\ Abs(c[2] - u[2]) <= (psf_shape[2] - 1) \div 2}

\* the coordinate of a pixel of an array, restated
CoordinateOfCell(m, c, pixel_scale) ==
    <<RNorm(pixel_scale * (2 * c[1] - (Shape(m)[1] - 1)), 2),
      RNorm(pixel_scale * (2 * c[2] - (Shape(m)[2] - 1)), 2)>>

with_negated_rows(mapping_matrix, negated_rows, every_column) ==
    [i \in DOMAIN mapping_matrix |->
        [j \in DOMAIN mapping_matrix[i] |->
            IF i \in negated_rows /\ (every_column \/ j = 0)
            THEN -mapping_matrix[i][j]
            ELSE mapping_matrix[i][j]]]

\* mapping matrices with entries of either sign
SignedMappingMatrices(n) ==
    {with_negated_rows(mapping_matrix, negated_rows, every_column) :
        mapping_matrix \in MappingMatrices(n), negated_rows \in SUBSET (0..(n - 1)),
        every_column \in BOOLEAN}

\* convolve_matrix_jit(mapping_matrix, ...) on the frames of the convolver
ConvolveSignedMatrix ==
    /\ call = NoCall
    /\ \E mapping_matrix \in SignedMappingMatrices(pixels_in_mask(mask)) :
          call' = [op |-> "convolve_matrix_jit", arg |-> mapping_matrix,
                   result |-> convolve_matrix_jit(mapping_matrix, image_frame_indexes,
                                                  image_frame_psfs, image_frame_lengths)]
    /\ UNCHANGED <<objects, convolver_vars, fit_vars>>

SignedInit ==
    /\ mask \in {FitMask(k) : k \in 1..(MaxFitPixels + 1)} \cup {CrossMask}
    /\ psf \in Kernels
    /\ image_frame_indexes = make_image_frame_indexes(mask)
    /\ image_frame_psfs = make_image_frame_psfs(mask, psf)
    /\ image_frame_lengths = make_image_frame_lengths(mask)
    /\ call = NoCall
    /\ objects = NoObjects
    /\ NoFit

SignedNext ==
    \/ ConvolveSignedMatrix

SpecSigned == SignedInit /\ [][SignedNext]_vars

(***************************************************************************)
(* C25: entries that are not positive contribute nothing                    *)
(***************************************************************************)

SignedMatrixConvolved == call.op = "convolve_matrix_jit"

\* the tap matrix B of the frames: B[t][i] is the weight that pixel i sends to pixel t
TapMatrix ==
    [t \in 0..(pixels_in_mask(mask) - 1) |->
        [i \in 0..(pixels_in_mask(mask) - 1) |->
            SumTo([k \in 0..(KernelMaxSize - 1) |->
                      IF k < image_frame_lengths[i] /\ image_frame_indexes[i][k] = t
                      THEN image_frame_psfs[i][k] ELSE 0], KernelMaxSize)]]

\* the matrix product of the tap matrix and a mapping matrix
TapMatrixTimes(mm) ==
    [t \in DOMAIN TapMatrix |->
        [j \in DOMAIN mm[0] |->
            SumTo([i \in DOMAIN mm |-> TapMatrix[t][i] * mm[i][j]], Size(mm))]]

\* max(M, 0), entry by entry
PositivePart(mm) == [i \in DOMAIN mm |-> [j \in DOMAIN mm[i] |-> IF mm[i][j] > 0 THEN mm[i][j] ELSE 0]]

NonNegative(mm) == \A i \in DOMAIN mm : \A j \in DOMAIN mm[i] : mm[i][j] >= 0

\* the sum of two matrices of one shape
MatrixSum(a, b) == [i \in DOMAIN a |-> [j \in DOMAIN a[i] |-> a[i][j] + b[i][j]]]

\* the matrix with every column but column j set to 0
OnlyColumn(mm, j) == [i \in DOMAIN mm |-> [q \in DOMAIN mm[i] |-> IF q = j THEN mm[i][q] ELSE 0]]

Convolved(mm) ==
    convolve_matrix_jit(mm, image_frame_indexes, image_frame_psfs, image_frame_lengths)

\* C25: the output of convolve_matrix_jit is B.max(M, 0) for the tap matrix B of
\* the frames; it is B.M exactly when M has no negative entry (for the kernels
\* of the model, whose centre weight is positive and whose weights are not
\* negative); on matrices without a negative entry it is additive and every
\* output column is that of the input column alone; and the output is the one
\* of the matrix with the negative entries replaced by 0
C25_NonPositiveEntriesContributeNothing ==
    SignedMatrixConvolved =>
        /\ call.result = TapMatrixTimes(PositivePart(call.arg))
        /\ (call.result = TapMatrixTimes(call.arg)) <=> NonNegative(call.arg)
        /\ call.result = Convolved(PositivePart(call.arg))
        /\ NonNegative(call.arg) =>
              /\ \A other \in MappingMatrices(pixels_in_mask(mask)) :
                    DOMAIN other[0] = DOMAIN call.arg[0] =>
                        Convolved(MatrixSum(call.arg, other))
                            = MatrixSum(call.result, Convolved(other))
              /\ \A j \in DOMAIN call.arg[0] :
                    \A t \in DOMAIN call.result :
                        call.result[t][j] = Convolved(OnlyColumn(call.arg, j))[t][j]

\* a matrix with a negative entry next to positive ones was convolved by a
\* kernel that blurs, and the output is not B.M
C25_Witness ==
    /\ SignedMatrixConvolved
    /\ psf # NoBlurKernel
    /\ pixels_in_mask(mask) >= 2
    /\ ~NonNegative(call.arg)
    /\ \E i \in DOMAIN call.arg : \E j \in DOMAIN call.arg[i] : call.arg[i][j] > 0
    /\ call.result # TapMatrixTimes(call.arg)
    /\ \E t \in DOMAIN call.result : \E j \in DOMAIN call.result[t] : call.result[t][j] > 0

(***************************************************************************)
(* C26: HyperPhase.run leaves the caller's results alone                    *)
(***************************************************************************)

\* the caller's collection with the result objects it holds
CallerResults(heap) ==
    [entries |-> heap[objects.caller_results].entries,
     held |-> [i \in DOMAIN heap[objects.caller_results].entries |->
                  heap[heap[objects.caller_results].entries[i][2]]]]

\* no step of run changes the caller's collection or a result it holds
C26_Step ==
    [][(objects.made /\ objects'.made) =>
          CallerResults(objects'.heap) = CallerResults(objects.heap)]_vars

\* the collection run works on and adds to is another object than the
\* caller's, empty at first when run was given no results
C26_State ==
    (objects.made /\ pc # "idle") =>
        /\ call.results.given
        /\ call.results.value # objects.caller_results
        /\ \A i \in DOMAIN objects.heap[call.results.value].entries :
              \A j \in DOMAIN objects.heap[objects.caller_results].entries :
                 objects.heap[call.results.value].entries[i][2]
                     # objects.heap[objects.caller_results].entries[j][2]
        /\ (~call.arg[2].given /\ pc = "phase.run") =>
              objects.heap[call.results.value].entries = <<>>

\* C26: HyperPhase.run adds the phase's result to a deep copy of the results it
\* was given, or to a new collection when it was given none; the caller's
\* collection and the results in it are the same after every step of run,
\* whether run returns or raises
C26_CallerResultsUnchanged == C26_Step /\ []C26_State

\* run returned after adding to its copy of a caller's collection of one result
C26_Witness ==
    /\ objects.made /\ pc = "done" /\ result.kind = "returned"
    /\ call.arg[2] = Some(objects.caller_results)
    /\ Len(objects.heap[objects.caller_results].entries) = 1
    /\ Len(objects.heap[call.results.value].entries) = 2

\* run raised in run_hyper after adding to its copy
C26_WitnessRaised ==
    /\ objects.made /\ pc = "done" /\ result.kind = "raised"
    /\ call.arg[2] = Some(objects.caller_results)
    /\ Len(objects.heap[objects.caller_results].entries) = 1
    /\ Len(objects.heap[call.results.value].entries) = 2

(***************************************************************************)
(* C27: the mask that setup_phase_mask returns                              *)
(***************************************************************************)

\* the pixels within a radius of the centre of the image are unmasked
UnmaskedWithin(radius_sq) ==
    [c \in Cells(ImageSide) |-> RadiusSquared(ImageSide, c) > radius_sq]

\* the base mask by precedence: the mask function's, else the passed mask,
\* else the circular mask of radius 3.0
BaseMaskByPrecedence ==
    IF call.arg[2] # None THEN UnmaskedWithin(call.arg[2].value)
    ELSE IF call.arg[1] # None THEN call.arg[1].value
    ELSE UnmaskedWithin(3 * 3)

\* C27: the base mask is the mask function's result when a mask function is
\* given, whatever mask is passed; else the passed mask; the circular mask of
\* radius 3.0 only when both are None.  With inner_mask_radii the returned mask
\* masks the pixels of the base mask and those within the inner radius, so
\* every pixel masked in the base mask stays masked; without, the base mask is
\* returned as it is
C27_BaseMaskPrecedence ==
    SetupPhaseMaskDone =>
        /\ call.result.kind = "returned"
        /\ DOMAIN call.result.value = Cells(ImageSide)
        /\ call.arg[3] = None => call.result.value = BaseMaskByPrecedence
        /\ call.arg[3] # None =>
              \A c \in Cells(ImageSide) :
                 /\ call.result.value[c]
                       <=> (BaseMaskByPrecedence[c]
                               \/ RadiusSquared(ImageSide, c) <= call.arg[3].value)
                 /\ BaseMaskByPrecedence[c] => call.result.value[c]

\* a mask and a mask function that disagree were passed with an inner radius
\* that masks more pixels but not all
C27_Witness ==
    /\ SetupPhaseMaskDone
    /\ call.arg[1] # None /\ call.arg[2] # None /\ call.arg[3] # None
    /\ call.arg[1].value # UnmaskedWithin(call.arg[2].value)
    /\ call.result.value # BaseMaskByPrecedence
    /\ pixels_in_mask(call.result.value) >= 1

\* no mask and no mask function were passed: the default mask is returned
C27_WitnessDefault ==
    /\ SetupPhaseMaskDone
    /\ call.arg = <<None, None, None>>
    /\ call.result.value = UnmaskedWithin(3 * 3)

(***************************************************************************)
(* C28: the order of the steps of GalaxyFitPhase.run                        *)
(***************************************************************************)

\* the steps of run, in the order of the claim
RunSteps ==
    <<"make_analysis", "pass_priors", "assert_and_save_pickle", "run_analysis", "make_result">>

RunCalled == objects.made /\ call.op = "run"

\* every step of run makes the one call that follows those made so far
C28_Step ==
    [][(RunCalled /\ call'.op = "run") =>
          /\ Len(objects'.calls) = Len(objects.calls) + 1
          /\ SubSeq(objects'.calls, 1, Len(objects.calls)) = objects.calls]_vars

\* the calls made so far are the first steps of the five, each once; a run
\* that returned made all five; the optimizer ran only after the pickle
\* assertion was made and passed; the Result carries the analysis that
\* make_analysis built and run_analysis was given
C28_State ==
    RunCalled =>
        /\ Len(objects.calls) <= Len(RunSteps)
        /\ \A i \in DOMAIN objects.calls : objects.calls[i].op = RunSteps[i]
        /\ LogOf("run_analysis") # {} =>
              /\ LogOf("assert_and_save_pickle") # {}
              /\ result # Raised("assert_and_save_pickle")
              /\ objects.calls[4].analysis = call.analysis
        /\ (pc = "done" /\ result.kind = "returned") =>
              /\ Len(objects.calls) = Len(RunSteps)
              /\ result.value.analysis = objects.calls[4].analysis
              /\ result.value.analysis = call.analysis
              /\ objects.calls[5].analysis = objects.calls[4].analysis

\* C28: run makes its calls in the order make_analysis, pass_priors,
\* assert_and_save_pickle, run_analysis, make_result, each once on a run that
\* returns; run_analysis is not called before the pickle assertion has passed;
\* and the returned Result carries the analysis given to run_analysis
C28_StepsInFixedOrder == C28_Step /\ []C28_State

\* run returned a Result with the analysis it built
C28_Witness ==
    /\ RunCalled /\ pc = "done" /\ result.kind = "returned"
    /\ Len(objects.calls) = 5
    /\ result.value.analysis.given
    /\ result.value.analysis.value.class = "AnalysisDeflections"

\* run ended at the pickle assertion: the optimizer did not run
C28_WitnessRaised ==
    /\ RunCalled /\ pc = "done" /\ result = Raised("assert_and_save_pickle")
    /\ Len(objects.calls) = 3

====
